---------------------------- MODULE Spec2Model ----------------------------
(***************************************************************************)
(* Model of soothill/meter-pulse, src/power_pulse.py: the bounded event   *)
(* queue, the enqueue gateway (enqueue_event), the ingestion worker       *)
(* (event_worker), the downsample accumulator (record_downsample /        *)
(* flush_completed_downsample_windows), the SQLite spill store,           *)
(* the replay worker (replay_worker), the InfluxDB batching writer as an  *)
(* opaque adapter (write_async / error_cb) and main's shutdown sequence.  *)
(*                                                                         *)
(* Time.  time.time_ns() is modelled as a pair <<seconds, nanoseconds>>   *)
(* so that ts_ns // 1_000_000_000 is the first component and              *)
(* window_start_s * 1_000_000_000 is <<window_start_s, 0>>; the wall      *)
(* clock steps through the instants of Instants.                          *)
(*                                                                         *)
(* Capacities.  EVENT_Q_MAX (200000), the batch threshold (2000) and      *)
(* REPLAY_BATCH_LINES (5000) are scaled to 2, 2 and 5: the scaling keeps  *)
(* the order relations of the source (2 * threshold <= replay limit <     *)
(* 3 * threshold).                                                         *)
(***************************************************************************)
EXTENDS Integers, Sequences, FiniteSets, TLC

\* ------------------------------------------------------------------ bounds
\* Spec: number of enqueue_event calls and of batches the adapter gives up
\* (calls of error_cb) explored.
MaxEvents == 3
MaxFailures == 1
\* SpecAcc: number of enqueue_event calls explored.
AccEvents == 3
\* SpecOutage: number of enqueue_event calls and of error_cb calls explored.
OutageEvents == 6
OutageFailures == 3
\* SpecRestart: number of rows an earlier run left in the spill store.
MaxRows == 6
\* SpecStore: ids the store hands out, largest LIMIT of a dequeue and
\* largest number of lines of one append.
MaxIds == 4
MaxLimit == 3
MaxLines == 2
\* SpecLock: number of enqueue_event calls explored.
LockEvents == 4
\* SpecStop: number of enqueue_event calls explored.
StopEvents == 3
\* SpecDbError: number of enqueue_event calls, of batches the adapter gives
\* up and of appends to the spill store that raise.
DbErrEvents == 4
DbErrFailures == 2
DbErrRaises == 2
\* SpecRun: number of enqueue_event calls explored.
RunEvents == 3
\* SpecDrain: number of rows an earlier run left in the spill store, of
\* enqueue_event calls and of batches the adapter gives up.
DrainRows == 6
DrainEvents == 3
DrainFailures == 1
\* SpecDiag: number of diagnostic reads of main explored.
DiagReads == 2
\* SpecRerun: number of times the program is started again.
MaxRestarts == 1

\* ------------------------------------------------------- program constants
EVENT_Q_MAX == 2
BATCH_THRESHOLD == 2
REPLAY_BATCH_LINES == 5
DS_WINDOW_SECONDS == 60
DS_FLUSH_JITTER_SECONDS == 2
DS_FLUSH_EVERY_SECONDS == 5

RAW_BUCKET == "PowerLogger_raw"
DS_BUCKET == "PowerLogger_1m"
RAW_MEASUREMENT == "PowerPulse"
DS_MEASUREMENT == "PowerPulse_1m"

\* The categories the GPIO handlers pass to enqueue_event (two of the three).
PulseTypes == {"Import", "Export"}
\* SpecOutage explores one category.
OneType == {"Import"}

\* The wall clock's successive readings <<seconds, nanoseconds>>.
Instants ==
    << <<10, 0>>, <<61, 500000000>>, <<63, 0>>, <<125, 0>> >>

\* The shapes of the `conf` argument the adapter hands to error_cb: a dict
\* holding the bucket, or the writer's batch key tuple (bucket, org, precision).
ConfShapes == {"dict", "tuple"}

VARIABLES
    clock,          \* index into Instants: the current wall-clock reading
    event_q,        \* queue.Queue(maxsize=EVENT_Q_MAX): sequence of <<pulse_type, ts_ns>>
    stop_evt,       \* threading.Event
    ds_counts,      \* window start -> sequence of [pulse_type, count] (insertion order)
    lp_queue,       \* table lp_queue, rows [id, bucket, lp] in id order
    db_seq,         \* AUTOINCREMENT high-water mark (sqlite_sequence)
    inflight,       \* batches handed to write_api.write and not yet resolved
    accepted,       \* bag of the records [bucket, lp] the sink accepted
    ew_pc,          \* event_worker position
    raw_lines_batch,\* event_worker local
    last_ds_flush_s,\* event_worker local
    ew_now,         \* event_worker local now_s (0 outside an iteration)
    rw_pc,          \* replay_worker position
    rw_rows,        \* replay_worker local rows
    rw_seq,         \* history: db_seq when rows was read
    main_pc,        \* main position
    gpio_open,      \* the gpiozero devices are open (callbacks may fire)
    ev_log,         \* history: events passed to enqueue_event, [line, path]
    ew_log,         \* history: write_async calls of event_worker
    rw_log,         \* history: write_async calls of replay_worker
    n_failed,       \* history: number of error_cb calls
    ew_to_flush,    \* event_worker local to_flush of the flush in progress
    raised,         \* history: exceptions that left enqueue_event or error_cb
    n_buffered,     \* history: "buffered ... to SQLite" messages of error_cb
    diag_log,       \* history: has_rows values of main's diagnostic read
    replayed_ids,   \* history: ids replay_worker submitted, one list per process run
    ds_calls,       \* history: record_downsample calls, <<window, pulse_type>> -> count
    ds_flushed      \* history: windows removed by a flush

vars == << clock, event_q, stop_evt, ds_counts, lp_queue, db_seq, inflight,
           accepted, ew_pc, raw_lines_batch, last_ds_flush_s, ew_now, rw_pc,
           rw_rows, rw_seq, main_pc, gpio_open, ev_log, ew_log, rw_log,
           n_failed, ew_to_flush, raised, n_buffered, diag_log, replayed_ids,
           ds_calls, ds_flushed >>

\* ------------------------------------------------------------ small helpers
EmptyFn == [x \in {} |-> 0]

Min(a, b) == IF a <= b THEN a ELSE b

SetMin(S) == CHOOSE m \in S : \A x \in S : m <= x

RECURSIVE SortedSeq(_)
SortedSeq(S) ==
    IF S = {} THEN << >>
    ELSE LET m == SetMin(S) IN << m >> \o SortedSeq(S \ {m})

Range(s) == { s[i] : i \in 1..Len(s) }

RemoveAt(s, i) == SubSeq(s, 1, i - 1) \o SubSeq(s, i + 1, Len(s))

\* Number of occurrences of x in the sequence s.
RECURSIVE Count(_, _)
Count(x, s) ==
    IF s = << >> THEN 0
    ELSE (IF Head(s) = x THEN 1 ELSE 0) + Count(x, Tail(s))

\* A bag is a function from its elements to their positive counts.
BagCount(bag, x) == IF x \in DOMAIN bag THEN bag[x] ELSE 0

BagAdd(bag, x) ==
    [y \in (DOMAIN bag) \cup {x} |-> IF y = x THEN BagCount(bag, x) + 1 ELSE bag[y]]

\* Concatenation of a sequence of sequences.
RECURSIVE Flatten(_)
Flatten(ss) ==
    IF ss = << >> THEN << >> ELSE Head(ss) \o Flatten(Tail(ss))

\* -------------------------------------------------------------------- time
ns_now == Instants[clock]

time_time == Instants[clock][1]

\* ------------------------------------------------------------ line protocol
\* The pulse types hold none of the characters lp_escape_tag escapes.
make_raw_lp(pulse_type, ts_ns) ==
    [m |-> RAW_MEASUREMENT, tag |-> pulse_type, val |-> 1, ts |-> ts_ns]

make_ds_lp(pulse_type, window_start_s, count) ==
    [m |-> DS_MEASUREMENT, tag |-> pulse_type, val |-> count,
     ts |-> << window_start_s, 0 >>]

\* ------------------------------------------------------------- spill store
\* The database file before the first ensure_db.
NoDb == [q |-> << >>, seq |-> -1]

\* Mutant: the table is dropped and created again.
ensure_db_recreate(db) == [q |-> << >>, seq |-> 0]

\* CREATE TABLE IF NOT EXISTS: an absent table is created empty, an existing
\* one keeps its rows and its AUTOINCREMENT sequence.
ensure_db(db) == IF db = NoDb THEN [q |-> << >>, seq |-> 0] ELSE db

\* Mutant: the lines are inserted last first.
db_enqueue_reversed(q, seq, bucket, lines) ==
    IF lines = << >> THEN [q |-> q, seq |-> seq]
    ELSE [q |-> q \o [i \in 1..Len(lines) |->
                        [id |-> seq + i, bucket |-> bucket,
                         lp |-> lines[Len(lines) + 1 - i]]],
          seq |-> seq + Len(lines)]

\* Mutant: a plain INTEGER PRIMARY KEY, whose next id is one more than the
\* largest id still stored.
db_enqueue_rowid(q, seq, bucket, lines) ==
    LET top == IF q = << >> THEN 0 ELSE q[Len(q)].id
    IN IF lines = << >> THEN [q |-> q, seq |-> seq]
       ELSE [q |-> q \o [i \in 1..Len(lines) |->
                           [id |-> top + i, bucket |-> bucket, lp |-> lines[i]]],
             seq |-> top + Len(lines)]

db_enqueue_lines(q, seq, bucket, lines) ==
    IF lines = << >> THEN [q |-> q, seq |-> seq]
    ELSE [q |-> q \o [i \in 1..Len(lines) |->
                        [id |-> seq + i, bucket |-> bucket, lp |-> lines[i]]],
          seq |-> seq + Len(lines)]

\* Lines 223-227 when executemany or commit raises: the connection is closed
\* with the transaction uncommitted, so sqlite rolls the inserts and the
\* AUTOINCREMENT sequence back.
db_enqueue_raises(q, seq, bucket, lines) == [q |-> q, seq |-> seq]

\* Mutant: ORDER BY id DESC.
db_dequeue_newest(q, limit) ==
    SubSeq(q, Len(q) - Min(limit, Len(q)) + 1, Len(q))

\* Mutant: the SELECT has lost its LIMIT.
db_dequeue_all(q, limit) == q

\* Mutant: the read consumes the rows it returns.
db_after_dequeue_pop(q, limit) == SubSeq(q, Min(limit, Len(q)) + 1, Len(q))

\* Lines 231-237: the store after db_dequeue_lines; the SELECT writes nothing
\* and nothing is committed.
db_after_dequeue(q, limit) == q

\* Mutant: a backlog above the limit is not read.
db_dequeue_small(q, limit) == IF Len(q) > limit THEN << >> ELSE q

db_dequeue_lines(q, limit) == SubSeq(q, 1, Min(limit, Len(q)))

\* Mutant: the DELETE takes every row from the first listed id on.
db_delete_from(q, ids) ==
    IF ids = << >> THEN q
    ELSE SelectSeq(q, LAMBDA r : \A k \in 1..Len(ids) : r.id < ids[k])

\* Mutant: the DELETE also takes the oldest row it leaves.
db_delete_and_head(q, ids) ==
    LET kept == SelectSeq(q, LAMBDA r : r.id \notin Range(ids))
    IN IF ids = << >> \/ kept = << >> THEN kept ELSE Tail(kept)

\* Mutant: the DELETE has lost its WHERE clause.
db_delete_all(q, ids) == << >>

db_delete_ids(q, ids) ==
    IF ids = << >> THEN q
    ELSE SelectSeq(q, LAMBDA r : r.id \notin Range(ids))

\* ------------------------------------------------------------ sink adapter
\* Mutant: the lines of a batch are handed over in reverse order.
write_async_reversed(fl, bucket, lines) ==
    IF lines = << >> THEN fl
    ELSE Append(fl, [bucket |-> bucket,
                     lines |-> [i \in 1..Len(lines) |-> lines[Len(lines) + 1 - i]]])

write_async(fl, bucket, lines) ==
    IF lines = << >> THEN fl
    ELSE Append(fl, [bucket |-> bucket, lines |-> lines])

\* The bucket error_cb spills under, from the conf the adapter passes.
error_cb_bucket(conf) ==
    LET bucket == IF conf.shape = "dict" THEN conf.bucket ELSE "" IN
    IF bucket = "" THEN RAW_BUCKET ELSE bucket

\* ------------------------------------------------------------- accumulator
minute_epoch_of(ts_ns) == (ts_ns[1] \div DS_WINDOW_SECONDS) * DS_WINDOW_SECONDS

\* Mutant: the increment overwrites the category's count.
IncrType_reset(cs, pulse_type) ==
    IF \E i \in 1..Len(cs) : cs[i].pulse_type = pulse_type
    THEN [i \in 1..Len(cs) |->
            IF cs[i].pulse_type = pulse_type
            THEN [cs[i] EXCEPT !.count = 1] ELSE cs[i]]
    ELSE Append(cs, [pulse_type |-> pulse_type, count |-> 1])

IncrType(cs, pulse_type) ==
    IF \E i \in 1..Len(cs) : cs[i].pulse_type = pulse_type
    THEN [i \in 1..Len(cs) |->
            IF cs[i].pulse_type = pulse_type
            THEN [cs[i] EXCEPT !.count = @ + 1] ELSE cs[i]]
    ELSE Append(cs, [pulse_type |-> pulse_type, count |-> 1])

\* Mutant: the event is counted twice.
record_downsample_twice(dc, pulse_type, ts_ns) ==
    LET w == minute_epoch_of(ts_ns)
        cs == IF w \in DOMAIN dc THEN dc[w] ELSE << >>
    IN [x \in (DOMAIN dc) \cup {w} |->
          IF x = w THEN IncrType(IncrType(cs, pulse_type), pulse_type) ELSE dc[x]]

record_downsample(dc, pulse_type, ts_ns) ==
    LET w == minute_epoch_of(ts_ns)
        cs == IF w \in DOMAIN dc THEN dc[w] ELSE << >>
    IN [x \in (DOMAIN dc) \cup {w} |->
          IF x = w THEN IncrType(cs, pulse_type) ELSE dc[x]]

\* Mutant: the cutoff forgets the grace period.
complete_before_nograce(now_s) ==
    (now_s \div DS_WINDOW_SECONDS) * DS_WINDOW_SECONDS

complete_before(now_s) ==
    ((now_s - DS_FLUSH_JITTER_SECONDS) \div DS_WINDOW_SECONDS) * DS_WINDOW_SECONDS

to_flush(dc, now_s) ==
    SortedSeq({ w \in DOMAIN dc : w < complete_before(now_s) })

flush_remaining(dc, now_s) ==
    [w \in (DOMAIN dc) \ Range(to_flush(dc, now_s)) |-> dc[w]]

flush_lines(dc, now_s) ==
    LET ws == to_flush(dc, now_s) IN
    Flatten([k \in 1..Len(ws) |->
               [j \in 1..Len(dc[ws[k]]) |->
                  make_ds_lp(dc[ws[k]][j].pulse_type, ws[k], dc[ws[k]][j].count)]])

\* History of record_downsample calls.
NoteCall(calls, pulse_type, ts_ns) ==
    BagAdd(calls, << minute_epoch_of(ts_ns), pulse_type >>)

\* -------------------------------------------------------------------- Init
\* Module level state and the threads' locals once main has started them.
InitProcess ==
    /\ clock = 1
    /\ event_q = << >>
    /\ stop_evt = FALSE
    /\ ds_counts = EmptyFn
    /\ inflight = << >>
    /\ accepted = EmptyFn
    /\ ew_pc = "loop"
    /\ raw_lines_batch = << >>
    /\ last_ds_flush_s = 0
    /\ ew_now = 0
    /\ ew_to_flush = << >>
    /\ raised = << >>
    /\ n_buffered = 0
    /\ diag_log = << >>
    /\ replayed_ids = << << >> >>
    /\ rw_pc = "loop"
    /\ rw_rows = << >>
    /\ rw_seq = 0
    /\ main_pc = "run"
    /\ gpio_open = TRUE
    /\ ev_log = << >>
    /\ ew_log = << >>
    /\ rw_log = << >>
    /\ n_failed = 0
    /\ ds_calls = EmptyFn
    /\ ds_flushed = {}

\* ensure_db on a fresh QUEUE_DIR: the table is created empty.
Init ==
    /\ InitProcess
    /\ lp_queue = << >>
    /\ db_seq = 0

\* A row an earlier run of the program left in the store.
StoredRow(i, bucket) ==
    [id |-> i, bucket |-> bucket,
     lp |-> IF bucket = DS_BUCKET THEN make_ds_lp("Import", 0, i)
            ELSE make_raw_lp("Import", << i, 0 >>)]

\* ensure_db on an existing database: CREATE TABLE IF NOT EXISTS keeps the
\* rows and the AUTOINCREMENT sequence of the earlier run.
InitRestart ==
    /\ InitProcess
    /\ \E n \in 0..MaxRows :
          \E b \in [1..n -> {RAW_BUCKET, DS_BUCKET}] :
             /\ lp_queue = [i \in 1..n |-> StoredRow(i, b[i])]
             /\ db_seq = n

\* As InitRestart, with an empty store or a backlog of DrainRows raw rows.
InitDrain ==
    /\ InitProcess
    /\ \E n \in {0, DrainRows} :
          /\ lp_queue = [i \in 1..n |-> StoredRow(i, RAW_BUCKET)]
          /\ db_seq = n

\* The process runs: main has not returned (the worker threads are daemons).
Alive == main_pc # "exited"

\* ------------------------------------------------------------------- clock
Tick ==
    /\ Alive
    /\ clock < Len(Instants)
    /\ clock' = clock + 1
    /\ UNCHANGED << event_q, stop_evt, ds_counts, lp_queue, db_seq, inflight,
                    accepted, ew_pc, raw_lines_batch, last_ds_flush_s, ew_now,
                    rw_pc, rw_rows, rw_seq, main_pc, gpio_open, ev_log, ew_log, rw_log,
                    n_failed, ds_calls, ds_flushed >>
    /\ UNCHANGED ew_to_flush
    /\ UNCHANGED raised
    /\ UNCHANGED n_buffered
    /\ UNCHANGED diag_log
    /\ UNCHANGED replayed_ids

\* ----------------------------------------------------------- enqueue_event
\* Mutant: put_nowait refuses the last free slot.
put_nowait_full_early(q) == Len(q) >= EVENT_Q_MAX - 1

\* Mutant: the capacity test is off by one.
put_nowait_full_late(q) == Len(q) > EVENT_Q_MAX

\* event_q.put_nowait raises queue.Full.
put_nowait_full(q) == Len(q) >= EVENT_Q_MAX

enqueue_event(pulse_type) ==
    /\ Alive
    /\ gpio_open
    /\ LET ts_ns == ns_now
           lp == make_raw_lp(pulse_type, ts_ns)
       IN IF ~put_nowait_full(event_q)
          THEN /\ event_q' = Append(event_q, << pulse_type, ts_ns >>)
               /\ ev_log' = Append(ev_log, [line |-> lp, path |-> "queue"])
               /\ UNCHANGED << lp_queue, db_seq, ds_counts, ds_calls >>
          ELSE LET db == db_enqueue_lines(lp_queue, db_seq, RAW_BUCKET, << lp >>)
               IN /\ lp_queue' = db.q
                  /\ db_seq' = db.seq
                  /\ ds_counts' = record_downsample(ds_counts, pulse_type, ts_ns)
                  /\ ds_calls' = NoteCall(ds_calls, pulse_type, ts_ns)
                  /\ ev_log' = Append(ev_log, [line |-> lp, path |-> "spill"])
                  /\ UNCHANGED event_q
    /\ UNCHANGED << clock, stop_evt, inflight, accepted, ew_pc, raw_lines_batch,
                    last_ds_flush_s, ew_now, rw_pc, rw_rows, rw_seq, main_pc, gpio_open,
                    ew_log, rw_log, n_failed, ds_flushed >>
    /\ UNCHANGED ew_to_flush
    /\ UNCHANGED raised
    /\ UNCHANGED n_buffered
    /\ UNCHANGED diag_log
    /\ UNCHANGED replayed_ids

\* Mutant: the exception is swallowed and the event is counted.
after_db_error_counted(dc, pulse_type, ts_ns) ==
    record_downsample(dc, pulse_type, ts_ns)

\* Lines 432-434 when db_enqueue_lines raises: only queue.Full is caught, so
\* the exception leaves the except branch before record_downsample.
after_db_error(dc, pulse_type, ts_ns) == dc

\* Lines 427-433: the queue is full and the append to the spill store raises;
\* the exception leaves enqueue_event and the edge handler (line 468).
enqueue_event_db_error(pulse_type) ==
    /\ Alive
    /\ gpio_open
    /\ put_nowait_full(event_q)
    /\ LET ts_ns == ns_now
           lp == make_raw_lp(pulse_type, ts_ns)
           db == db_enqueue_raises(lp_queue, db_seq, RAW_BUCKET, << lp >>)
       IN /\ lp_queue' = db.q
          /\ db_seq' = db.seq
          /\ ds_counts' = after_db_error(ds_counts, pulse_type, ts_ns)
          /\ ev_log' = Append(ev_log, [line |-> lp, path |-> "raise"])
          /\ raised' = Append(raised, [from |-> "enqueue_event", lines |-> << lp >>])
    /\ UNCHANGED << clock, event_q, stop_evt, inflight, accepted, ew_pc,
                    raw_lines_batch, last_ds_flush_s, ew_now, ew_to_flush, rw_pc,
                    rw_rows, rw_seq, main_pc, gpio_open, ew_log, rw_log,
                    n_failed, n_buffered, ds_calls, ds_flushed >>
    /\ UNCHANGED diag_log
    /\ UNCHANGED replayed_ids

EnqueueEventDbError(types, cap, errs) ==
    /\ Len(ev_log) < cap
    /\ Len(raised) < errs
    /\ \E pulse_type \in types : enqueue_event_db_error(pulse_type)

\* The event source: a GPIO edge handler calls enqueue_event.
EnqueueEvent(types, cap) ==
    /\ Len(ev_log) < cap
    /\ \E pulse_type \in types : enqueue_event(pulse_type)

\* ------------------------------------------------------------ event_worker
\* Mutant: a full batch is submitted and not cleared.
EwConsume_keep ==
    LET ev == Head(event_q)
        batch == Append(raw_lines_batch, make_raw_lp(ev[1], ev[2]))
        full == Len(batch) >= BATCH_THRESHOLD
    IN /\ event_q' = Tail(event_q)
       /\ ds_counts' = record_downsample(ds_counts, ev[1], ev[2])
       /\ ds_calls' = NoteCall(ds_calls, ev[1], ev[2])
       /\ inflight' = IF full THEN write_async(inflight, RAW_BUCKET, batch)
                      ELSE inflight
       /\ ew_log' = IF full THEN write_async(ew_log, RAW_BUCKET, batch)
                    ELSE ew_log
       /\ raw_lines_batch' = batch

\* Lines 370-375 and 390-395: append the raw line, count it, submit a full batch.
EwConsume ==
    LET ev == Head(event_q)
        batch == Append(raw_lines_batch, make_raw_lp(ev[1], ev[2]))
        full == Len(batch) >= BATCH_THRESHOLD
    IN /\ event_q' = Tail(event_q)
       /\ ds_counts' = record_downsample(ds_counts, ev[1], ev[2])
       /\ ds_calls' = NoteCall(ds_calls, ev[1], ev[2])
       /\ inflight' = IF full THEN write_async(inflight, RAW_BUCKET, batch)
                      ELSE inflight
       /\ ew_log' = IF full THEN write_async(ew_log, RAW_BUCKET, batch)
                    ELSE ew_log
       /\ raw_lines_batch' = IF full THEN << >> ELSE batch

\* Lines 361-375: the loop test, a successful event_q.get and the event's handling.
EwRecv ==
    /\ Alive
    /\ ew_pc = "loop"
    /\ ~stop_evt
    /\ event_q # << >>
    /\ EwConsume
    /\ ew_now' = time_time
    /\ ew_pc' = "flush_got"
    /\ UNCHANGED << clock, stop_evt, lp_queue, db_seq, accepted, last_ds_flush_s,
                    rw_pc, rw_rows, rw_seq, main_pc, gpio_open, ev_log, rw_log, n_failed,
                    ds_flushed >>
    /\ UNCHANGED ew_to_flush
    /\ UNCHANGED raised
    /\ UNCHANGED n_buffered
    /\ UNCHANGED diag_log
    /\ UNCHANGED replayed_ids

\* Mutant: a timeout is handled as a received event, so no idle flush runs.
EwTimeout_got ==
    /\ Alive
    /\ ew_pc = "loop"
    /\ ~stop_evt
    /\ event_q = << >>
    /\ ew_now' = time_time
    /\ ew_pc' = "flush_got"
    /\ UNCHANGED << clock, event_q, stop_evt, ds_counts, lp_queue, db_seq,
                    inflight, accepted, raw_lines_batch, last_ds_flush_s, rw_pc,
                    rw_rows, rw_seq, main_pc, gpio_open, ev_log, ew_log, rw_log,
                    n_failed, ew_to_flush, raised, n_buffered, ds_calls,
                    ds_flushed >>
    /\ UNCHANGED diag_log
    /\ UNCHANGED replayed_ids

\* Lines 361-367: the loop test and event_q.get timing out on an empty queue.
EwTimeout ==
    /\ Alive
    /\ ew_pc = "loop"
    /\ ~stop_evt
    /\ event_q = << >>
    /\ ew_now' = time_time
    /\ ew_pc' = "flush_none"
    /\ UNCHANGED << clock, event_q, stop_evt, ds_counts, lp_queue, db_seq,
                    inflight, accepted, raw_lines_batch, last_ds_flush_s, rw_pc,
                    rw_rows, rw_seq, main_pc, gpio_open, ev_log, ew_log, rw_log, n_failed,
                    ds_calls, ds_flushed >>
    /\ UNCHANGED ew_to_flush
    /\ UNCHANGED raised
    /\ UNCHANGED n_buffered
    /\ UNCHANGED diag_log
    /\ UNCHANGED replayed_ids

\* Mutant: the periodic flush runs only in iterations that received an event.
flush_due_on_event(now_s, last_s) ==
    ew_pc = "flush_got" /\ now_s - last_s >= DS_FLUSH_EVERY_SECONDS

\* Line 377: the periodic flush is due.
flush_due(now_s, last_s) == now_s - last_s >= DS_FLUSH_EVERY_SECONDS

\* Lines 377-383: the periodic window flush, then the idle flush of the batch.
EwPeriodicIdle ==
    /\ Alive
    /\ ew_pc \in {"flush_got", "flush_none"}
    /\ LET due == flush_due(ew_now, last_ds_flush_s)
           ds_lines == IF due THEN flush_lines(ds_counts, ew_now) ELSE << >>
           idle == ew_pc = "flush_none" /\ raw_lines_batch # << >>
           raw_lines == IF idle THEN raw_lines_batch ELSE << >>
       IN /\ last_ds_flush_s' = IF due THEN ew_now ELSE last_ds_flush_s
          /\ ds_counts' = IF due THEN flush_remaining(ds_counts, ew_now)
                          ELSE ds_counts
          /\ ds_flushed' = IF due THEN ds_flushed \cup Range(to_flush(ds_counts, ew_now))
                           ELSE ds_flushed
          /\ inflight' = write_async(write_async(inflight, DS_BUCKET, ds_lines),
                                     RAW_BUCKET, raw_lines)
          /\ ew_log' = write_async(write_async(ew_log, DS_BUCKET, ds_lines),
                                   RAW_BUCKET, raw_lines)
          /\ raw_lines_batch' = IF idle THEN << >> ELSE raw_lines_batch
    /\ ew_now' = 0
    /\ ew_pc' = "loop"
    /\ UNCHANGED << clock, event_q, stop_evt, lp_queue, db_seq, accepted, rw_pc,
                    rw_rows, rw_seq, main_pc, gpio_open, ev_log, rw_log, n_failed,
                    ds_calls >>
    /\ UNCHANGED ew_to_flush
    /\ UNCHANGED raised
    /\ UNCHANGED n_buffered
    /\ UNCHANGED diag_log
    /\ UNCHANGED replayed_ids

\* ------------------------------------------- the flush, one step per loop
\* Lines 335-339: the copies of the completed windows, (minute_epoch, counts).
snapshot_of(dc, now_s) ==
    LET ws == to_flush(dc, now_s)
    IN [k \in 1..Len(ws) |-> << ws[k], dc[ws[k]] >>]

\* Lines 340-341: ds_counts.pop(minute_epoch, None) for each copied window.
pop_all(dc, snap) ==
    [w \in (DOMAIN dc) \ { snap[k][1] : k \in 1..Len(snap) } |-> dc[w]]

\* Lines 346-349: one line per window and category of the copies.
snapshot_lines(snap) ==
    Flatten([k \in 1..Len(snap) |->
               [j \in 1..Len(snap[k][2]) |->
                  make_ds_lp(snap[k][2][j].pulse_type, snap[k][1],
                             snap[k][2][j].count)]])

\* Mutant: record_downsample does not take ds_lock.
ds_lock_ignored(pc) == TRUE

\* ds_lock is free: event_worker is not between the first loop of the
\* flush's `with ds_lock` block and the end of the second.
ds_lock_free(pc) == pc \notin {"pop_got", "pop_none"}

\* Lines 377-378 and 332-339: the flush is due; under ds_lock the completed
\* windows are copied to to_flush.
EwFlushCopy ==
    /\ Alive
    /\ ew_pc \in {"flush_got", "flush_none"}
    /\ flush_due(ew_now, last_ds_flush_s)
    /\ last_ds_flush_s' = ew_now
    /\ ew_to_flush' = snapshot_of(ds_counts, ew_now)
    /\ ew_pc' = IF ew_pc = "flush_got" THEN "pop_got" ELSE "pop_none"
    /\ UNCHANGED << clock, event_q, stop_evt, ds_counts, lp_queue, db_seq,
                    inflight, accepted, raw_lines_batch, ew_now, rw_pc, rw_rows,
                    rw_seq, main_pc, gpio_open, ev_log, ew_log, rw_log, n_failed,
                    ds_calls, ds_flushed >>
    /\ UNCHANGED raised
    /\ UNCHANGED n_buffered
    /\ UNCHANGED diag_log
    /\ UNCHANGED replayed_ids

\* Lines 340-341: still under ds_lock, the copied windows are popped.
EwFlushPop ==
    /\ Alive
    /\ ew_pc \in {"pop_got", "pop_none"}
    /\ ds_counts' = pop_all(ds_counts, ew_to_flush)
    /\ ds_flushed' = ds_flushed \cup { ew_to_flush[k][1] : k \in 1..Len(ew_to_flush) }
    /\ ew_pc' = IF ew_pc = "pop_got" THEN "emit_got" ELSE "emit_none"
    /\ UNCHANGED << clock, event_q, stop_evt, lp_queue, db_seq, inflight,
                    accepted, raw_lines_batch, last_ds_flush_s, ew_now,
                    ew_to_flush, rw_pc, rw_rows, rw_seq, main_pc, gpio_open,
                    ev_log, ew_log, rw_log, n_failed, ds_calls >>
    /\ UNCHANGED raised
    /\ UNCHANGED n_buffered
    /\ UNCHANGED diag_log
    /\ UNCHANGED replayed_ids

\* Lines 343-351 and 381-383: the lock is released; the lines of the copies
\* are submitted, then the idle flush of the raw batch.
EwFlushEmit ==
    /\ Alive
    /\ ew_pc \in {"emit_got", "emit_none"}
    /\ LET ds_lines == snapshot_lines(ew_to_flush)
           idle == ew_pc = "emit_none" /\ raw_lines_batch # << >>
           raw_lines == IF idle THEN raw_lines_batch ELSE << >>
       IN /\ inflight' = write_async(write_async(inflight, DS_BUCKET, ds_lines),
                                     RAW_BUCKET, raw_lines)
          /\ ew_log' = write_async(write_async(ew_log, DS_BUCKET, ds_lines),
                                   RAW_BUCKET, raw_lines)
          /\ raw_lines_batch' = IF idle THEN << >> ELSE raw_lines_batch
    /\ ew_to_flush' = << >>
    /\ ew_now' = 0
    /\ ew_pc' = "loop"
    /\ UNCHANGED << clock, event_q, stop_evt, ds_counts, lp_queue, db_seq,
                    accepted, last_ds_flush_s, rw_pc, rw_rows, rw_seq, main_pc,
                    gpio_open, ev_log, rw_log, n_failed, ds_calls, ds_flushed >>
    /\ UNCHANGED raised
    /\ UNCHANGED n_buffered
    /\ UNCHANGED diag_log
    /\ UNCHANGED replayed_ids

\* Lines 377 and 381-383: the flush is not due; only the idle flush runs.
EwNoFlush ==
    /\ ~flush_due(ew_now, last_ds_flush_s)
    /\ EwPeriodicIdle

\* enqueue_event whose overflow path waits for ds_lock in record_downsample
\* (line 327); the call is taken when it gets the lock.
EnqueueLocked(types, cap) ==
    /\ put_nowait_full(event_q) => ds_lock_free(ew_pc)
    /\ EnqueueEvent(types, cap)

\* Line 361: the loop test finds stop_evt set.
EwStop ==
    /\ Alive
    /\ ew_pc = "loop"
    /\ stop_evt
    /\ ew_pc' = "drain"
    /\ UNCHANGED << clock, event_q, stop_evt, ds_counts, lp_queue, db_seq,
                    inflight, accepted, raw_lines_batch, last_ds_flush_s, ew_now,
                    rw_pc, rw_rows, rw_seq, main_pc, gpio_open, ev_log, ew_log, rw_log,
                    n_failed, ds_calls, ds_flushed >>
    /\ UNCHANGED ew_to_flush
    /\ UNCHANGED raised
    /\ UNCHANGED n_buffered
    /\ UNCHANGED diag_log
    /\ UNCHANGED replayed_ids

\* Lines 385-395: one pass of the drain loop.
EwDrain ==
    /\ Alive
    /\ ew_pc = "drain"
    /\ event_q # << >>
    /\ EwConsume
    /\ UNCHANGED << clock, stop_evt, lp_queue, db_seq, accepted, ew_pc,
                    last_ds_flush_s, ew_now, rw_pc, rw_rows, rw_seq, main_pc, gpio_open,
                    ev_log, rw_log, n_failed, ds_flushed >>
    /\ UNCHANGED ew_to_flush
    /\ UNCHANGED raised
    /\ UNCHANGED n_buffered
    /\ UNCHANGED diag_log
    /\ UNCHANGED replayed_ids

\* Lines 386-400: get_nowait raises Empty, the open batch is submitted (and
\* not cleared) and flush_completed_downsample_windows(int(time.time())) runs.
EwFinal ==
    /\ Alive
    /\ ew_pc = "drain"
    /\ event_q = << >>
    /\ LET ds_lines == flush_lines(ds_counts, time_time)
       IN /\ inflight' = write_async(write_async(inflight, RAW_BUCKET, raw_lines_batch),
                                     DS_BUCKET, ds_lines)
          /\ ew_log' = write_async(write_async(ew_log, RAW_BUCKET, raw_lines_batch),
                                   DS_BUCKET, ds_lines)
          /\ ds_counts' = flush_remaining(ds_counts, time_time)
          /\ ds_flushed' = ds_flushed \cup Range(to_flush(ds_counts, time_time))
    /\ ew_pc' = "done"
    /\ UNCHANGED << clock, event_q, stop_evt, lp_queue, db_seq, accepted,
                    raw_lines_batch, last_ds_flush_s, ew_now, rw_pc, rw_rows, rw_seq,
                    main_pc, gpio_open, ev_log, rw_log, n_failed, ds_calls >>
    /\ UNCHANGED ew_to_flush
    /\ UNCHANGED raised
    /\ UNCHANGED n_buffered
    /\ UNCHANGED diag_log
    /\ UNCHANGED replayed_ids

\* ----------------------------------------------------------- replay_worker
\* Mutant: the id list also names the id after the last dequeued one.
ids_of_next(rows) ==
    [i \in 1..(Len(rows) + 1) |->
        IF i <= Len(rows) THEN rows[i].id ELSE rows[Len(rows)].id + 1]

\* Lines 411-415: ids, and the keys of by_bucket in first-insertion order.
ids_of(rows) == [i \in 1..Len(rows) |-> rows[i].id]

RECURSIVE buckets_of(_)
buckets_of(rows) ==
    IF rows = << >> THEN << >>
    ELSE LET rest == buckets_of(SubSeq(rows, 1, Len(rows) - 1))
             b == rows[Len(rows)].bucket
         IN IF b \in Range(rest) THEN rest ELSE Append(rest, b)

\* Mutant: the grouping puts every row's line in every group.
lines_of_all(rows, bucket) == [i \in 1..Len(rows) |-> rows[i].lp]

lines_of(rows, bucket) ==
    LET sel == SelectSeq(rows, LAMBDA r : r.bucket = bucket)
    IN [i \in 1..Len(sel) |-> sel[i].lp]

\* Mutant: only the first group of by_bucket is submitted.
replay_submit_first(fl, rows, buckets) ==
    IF buckets = << >> THEN fl
    ELSE write_async(fl, Head(buckets), lines_of(rows, Head(buckets)))

\* Lines 417-418: one write_async per bucket of by_bucket.
RECURSIVE replay_submit(_, _, _)
replay_submit(fl, rows, buckets) ==
    IF buckets = << >> THEN fl
    ELSE replay_submit(write_async(fl, Head(buckets), lines_of(rows, Head(buckets))),
                       rows, Tail(buckets))

\* History of the ids whose lines the current run has submitted.
NoteIds(runs, rows, buckets) ==
    [runs EXCEPT ![Len(runs)] =
        @ \o ids_of(SelectSeq(rows, LAMBDA r : r.bucket \in Range(buckets)))]

\* Line 404: the loop test; line 405 is the sleep that follows.
RwCheck ==
    /\ Alive
    /\ rw_pc = "loop"
    /\ rw_pc' = IF stop_evt THEN "done" ELSE "sleep"
    /\ UNCHANGED << clock, event_q, stop_evt, ds_counts, lp_queue, db_seq,
                    inflight, accepted, ew_pc, raw_lines_batch, last_ds_flush_s,
                    ew_now, rw_rows, rw_seq, main_pc, gpio_open, ev_log, ew_log, rw_log,
                    n_failed, ds_calls, ds_flushed >>
    /\ UNCHANGED ew_to_flush
    /\ UNCHANGED raised
    /\ UNCHANGED n_buffered
    /\ UNCHANGED diag_log
    /\ UNCHANGED replayed_ids

\* Lines 407-409: rows = db_dequeue_lines(REPLAY_BATCH_LINES); continue if none.
RwDequeue ==
    /\ Alive
    /\ rw_pc = "sleep"
    /\ rw_rows' = db_dequeue_lines(lp_queue, REPLAY_BATCH_LINES)
    /\ rw_seq' = db_seq
    /\ rw_pc' = IF rw_rows' = << >> THEN "loop" ELSE "submit"
    /\ UNCHANGED << clock, event_q, stop_evt, ds_counts, lp_queue, db_seq,
                    inflight, accepted, ew_pc, raw_lines_batch, last_ds_flush_s,
                    ew_now, main_pc, gpio_open, ev_log, ew_log, rw_log, n_failed,
                    ds_calls, ds_flushed >>
    /\ UNCHANGED ew_to_flush
    /\ UNCHANGED raised
    /\ UNCHANGED n_buffered
    /\ UNCHANGED diag_log
    /\ UNCHANGED replayed_ids

\* Lines 411-418: group by bucket and submit each group.
RwSubmit ==
    /\ Alive
    /\ rw_pc = "submit"
    /\ inflight' = replay_submit(inflight, rw_rows, buckets_of(rw_rows))
    /\ rw_log' = replay_submit(rw_log, rw_rows, buckets_of(rw_rows))
    /\ replayed_ids' = NoteIds(replayed_ids, rw_rows, buckets_of(rw_rows))
    /\ rw_pc' = "delete"
    /\ UNCHANGED << clock, event_q, stop_evt, ds_counts, lp_queue, db_seq,
                    accepted, ew_pc, raw_lines_batch, last_ds_flush_s, ew_now,
                    rw_rows, rw_seq, main_pc, gpio_open, ev_log, ew_log, n_failed,
                    ds_calls, ds_flushed >>
    /\ UNCHANGED ew_to_flush
    /\ UNCHANGED raised
    /\ UNCHANGED n_buffered
    /\ UNCHANGED diag_log

\* Lines 416-417: a write_async call raises after some groups were submitted;
\* replay_worker catches nothing, so the exception ends the thread before
\* line 419.
RwSubmitRaise ==
    /\ Alive
    /\ rw_pc = "submit"
    /\ \E k \in 0..(Len(buckets_of(rw_rows)) - 1) :
          LET done == SubSeq(buckets_of(rw_rows), 1, k)
          IN /\ inflight' = replay_submit(inflight, rw_rows, done)
             /\ rw_log' = replay_submit(rw_log, rw_rows, done)
             /\ replayed_ids' = NoteIds(replayed_ids, rw_rows, done)
    /\ rw_pc' = "dead"
    /\ UNCHANGED << clock, event_q, stop_evt, ds_counts, lp_queue, db_seq,
                    accepted, ew_pc, raw_lines_batch, last_ds_flush_s, ew_now,
                    rw_rows, rw_seq, main_pc, gpio_open, ev_log, ew_log, n_failed,
                    ds_calls, ds_flushed >>
    /\ UNCHANGED ew_to_flush
    /\ UNCHANGED raised
    /\ UNCHANGED n_buffered
    /\ UNCHANGED diag_log

\* Line 420: db_delete_ids(ids).
RwDelete ==
    /\ Alive
    /\ rw_pc = "delete"
    /\ lp_queue' = db_delete_ids(lp_queue, ids_of(rw_rows))
    /\ rw_rows' = << >>
    /\ rw_pc' = "loop"
    /\ UNCHANGED << rw_seq, clock, event_q, stop_evt, ds_counts, db_seq, inflight,
                    accepted, ew_pc, raw_lines_batch, last_ds_flush_s, ew_now,
                    main_pc, gpio_open, ev_log, ew_log, rw_log, n_failed,
                    ds_calls, ds_flushed >>
    /\ UNCHANGED ew_to_flush
    /\ UNCHANGED raised
    /\ UNCHANGED n_buffered
    /\ UNCHANGED diag_log
    /\ UNCHANGED replayed_ids

\* ------------------------------------------------------------ sink adapter
\* The records of a delivered batch join those the sink holds.
RECURSIVE sink_store(_, _, _)
sink_store(acc, bucket, lines) ==
    IF lines = << >> THEN acc
    ELSE sink_store(BagAdd(acc, [bucket |-> bucket, lp |-> Head(lines)]),
                    bucket, Tail(lines))

\* The writer delivers a batch: success_cb does nothing.
SinkAccept ==
    /\ Alive
    /\ \E i \in 1..Len(inflight) :
          /\ accepted' = sink_store(accepted, inflight[i].bucket, inflight[i].lines)
          /\ inflight' = RemoveAt(inflight, i)
    /\ UNCHANGED << clock, event_q, stop_evt, ds_counts, lp_queue, db_seq, ew_pc,
                    raw_lines_batch, last_ds_flush_s, ew_now, rw_pc, rw_rows, rw_seq,
                    main_pc, gpio_open, ev_log, ew_log, rw_log, n_failed,
                    ds_calls, ds_flushed >>
    /\ UNCHANGED ew_to_flush
    /\ UNCHANGED raised
    /\ UNCHANGED n_buffered
    /\ UNCHANGED diag_log
    /\ UNCHANGED replayed_ids

\* Lines 277-293: the writer gives a batch up and calls error_cb(conf, data, exc).
error_cb(conf, data) ==
    LET db == db_enqueue_lines(lp_queue, db_seq, error_cb_bucket(conf), data)
    IN /\ lp_queue' = db.q
       /\ db_seq' = db.seq
       /\ n_buffered' = n_buffered + 1

SinkFail(cap) ==
    /\ Alive
    /\ n_failed < cap
    /\ \E i \in 1..Len(inflight), shape \in ConfShapes :
          /\ error_cb([shape |-> shape, bucket |-> inflight[i].bucket],
                      inflight[i].lines)
          /\ inflight' = RemoveAt(inflight, i)
    /\ n_failed' = n_failed + 1
    /\ UNCHANGED << clock, event_q, stop_evt, ds_counts, accepted, ew_pc,
                    raw_lines_batch, last_ds_flush_s, ew_now, rw_pc, rw_rows, rw_seq,
                    main_pc, gpio_open, ev_log, ew_log, rw_log, ds_calls,
                    ds_flushed >>
    /\ UNCHANGED ew_to_flush
    /\ UNCHANGED raised
    /\ UNCHANGED diag_log
    /\ UNCHANGED replayed_ids

\* Lines 277-290 when db_enqueue_lines raises: error_cb catches nothing around
\* line 290, so the exception leaves it before the message of line 291.
error_cb_db_error(conf, data) ==
    LET db == db_enqueue_raises(lp_queue, db_seq, error_cb_bucket(conf), data)
    IN /\ lp_queue' = db.q
       /\ db_seq' = db.seq
       /\ raised' = Append(raised, [from |-> "error_cb", lines |-> data])
       /\ UNCHANGED n_buffered

SinkFailDbError(cap, errs) ==
    /\ Alive
    /\ n_failed < cap
    /\ Len(raised) < errs
    /\ \E i \in 1..Len(inflight), shape \in ConfShapes :
          /\ error_cb_db_error([shape |-> shape, bucket |-> inflight[i].bucket],
                               inflight[i].lines)
          /\ inflight' = RemoveAt(inflight, i)
    /\ n_failed' = n_failed + 1
    /\ UNCHANGED << clock, event_q, stop_evt, ds_counts, accepted, ew_pc,
                    raw_lines_batch, last_ds_flush_s, ew_now, ew_to_flush, rw_pc,
                    rw_rows, rw_seq, main_pc, gpio_open, ev_log, ew_log, rw_log,
                    ds_calls, ds_flushed >>
    /\ UNCHANGED diag_log
    /\ UNCHANGED replayed_ids

\* -------------------------------------------------------------------- main
\* Lines 712-755: an iteration of main's loop with debugging enabled reads
\* one row and prints whether there was one.
MainDiag(cap) ==
    /\ main_pc = "run"
    /\ Len(diag_log) < cap
    /\ LET rows == db_dequeue_lines(lp_queue, 1)
       IN diag_log' = Append(diag_log, rows # << >>)
    /\ lp_queue' = db_after_dequeue(lp_queue, 1)
    /\ UNCHANGED << clock, event_q, stop_evt, ds_counts, db_seq, inflight,
                    accepted, ew_pc, raw_lines_batch, last_ds_flush_s, ew_now,
                    ew_to_flush, rw_pc, rw_rows, rw_seq, main_pc, gpio_open,
                    ev_log, ew_log, rw_log, n_failed, raised, n_buffered,
                    replayed_ids, ds_calls, ds_flushed >>

\* Line 759: KeyboardInterrupt, then stop_evt.set().
MainStop ==
    /\ main_pc = "run"
    /\ stop_evt' = TRUE
    /\ main_pc' = "closing"
    /\ UNCHANGED << clock, event_q, ds_counts, lp_queue, db_seq, inflight,
                    accepted, ew_pc, raw_lines_batch, last_ds_flush_s, ew_now,
                    rw_pc, rw_rows, rw_seq, gpio_open, ev_log, ew_log, rw_log, n_failed,
                    ds_calls, ds_flushed >>
    /\ UNCHANGED ew_to_flush
    /\ UNCHANGED raised
    /\ UNCHANGED n_buffered
    /\ UNCHANGED diag_log
    /\ UNCHANGED replayed_ids

\* Lines 762-767: the gpiozero devices are closed.
MainCloseDevices ==
    /\ main_pc = "closing"
    /\ gpio_open' = FALSE
    /\ main_pc' = "sleeping"
    /\ UNCHANGED << clock, event_q, stop_evt, ds_counts, lp_queue, db_seq,
                    inflight, accepted, ew_pc, raw_lines_batch, last_ds_flush_s,
                    ew_now, rw_pc, rw_rows, rw_seq, ev_log, ew_log, rw_log, n_failed,
                    ds_calls, ds_flushed >>
    /\ UNCHANGED ew_to_flush
    /\ UNCHANGED raised
    /\ UNCHANGED n_buffered
    /\ UNCHANGED diag_log
    /\ UNCHANGED replayed_ids

\* Lines 769-776: time.sleep(1), write_api.flush(), client.close(); main
\* returns and the interpreter ends the daemon threads.
MainExit ==
    /\ main_pc = "sleeping"
    /\ main_pc' = "exited"
    /\ UNCHANGED << clock, event_q, stop_evt, ds_counts, lp_queue, db_seq,
                    inflight, accepted, ew_pc, raw_lines_batch, last_ds_flush_s,
                    ew_now, rw_pc, rw_rows, rw_seq, gpio_open, ev_log, ew_log, rw_log,
                    n_failed, ds_calls, ds_flushed >>
    /\ UNCHANGED ew_to_flush
    /\ UNCHANGED raised
    /\ UNCHANGED n_buffered
    /\ UNCHANGED diag_log
    /\ UNCHANGED replayed_ids

\* Lines 504-515: the program is started again after main has returned:
\* ensure_db finds the database of the earlier run, the module state is
\* fresh and the worker threads start at the top of their loops.
Restart(cap) ==
    /\ main_pc = "exited"
    /\ Len(replayed_ids) <= cap
    /\ LET db == ensure_db([q |-> lp_queue, seq |-> db_seq])
       IN /\ lp_queue' = db.q
          /\ db_seq' = db.seq
    /\ event_q' = << >>
    /\ stop_evt' = FALSE
    /\ ds_counts' = EmptyFn
    /\ inflight' = << >>
    /\ ew_pc' = "loop"
    /\ raw_lines_batch' = << >>
    /\ last_ds_flush_s' = 0
    /\ ew_now' = 0
    /\ ew_to_flush' = << >>
    /\ rw_pc' = "loop"
    /\ rw_rows' = << >>
    /\ main_pc' = "run"
    /\ gpio_open' = TRUE
    /\ replayed_ids' = Append(replayed_ids, << >>)
    /\ UNCHANGED << clock, accepted, rw_seq, ev_log, ew_log, rw_log, n_failed,
                    raised, n_buffered, diag_log, ds_calls, ds_flushed >>

\* ------------------------------------------------------------------- specs
Worker == EwRecv \/ EwTimeout \/ EwPeriodicIdle \/ EwStop \/ EwDrain \/ EwFinal

Replay == RwCheck \/ RwDequeue \/ RwSubmit \/ RwDelete

Main == MainStop \/ MainCloseDevices \/ MainExit

\* The delivery pipeline at one clock reading: gateway, worker, adapter,
\* replay worker and main's shutdown.
Next ==
    \/ EnqueueEvent(PulseTypes, MaxEvents)
    \/ Worker
    \/ Replay
    \/ SinkAccept
    \/ SinkFail(MaxFailures)
    \/ Main

Spec == Init /\ [][Next]_vars

\* The gateway, the worker, the accumulator and main's shutdown over every
\* clock reading; the adapter resolves nothing and no replay cycle runs.
NextAcc ==
    \/ Tick
    \/ EnqueueEvent(PulseTypes, AccEvents)
    \/ Worker
    \/ Main

SpecAcc == Init /\ [][NextAcc]_vars

\* A sink outage: the adapter gives up OutageFailures batches; then it
\* accepts and the replay interval elapses.
NextOutage ==
    \/ EnqueueEvent(OneType, OutageEvents)
    \/ EwRecv \/ EwTimeout \/ EwPeriodicIdle
    \/ SinkFail(OutageFailures)
    \/ (n_failed = OutageFailures /\ (Replay \/ SinkAccept))

SpecOutage == Init /\ [][NextOutage]_vars

\* The program restarted on the store an earlier run left: the replay
\* worker drains it while the adapter accepts its batches or gives them up
\* (error_cb appends to the store during a cycle).
NextRestart ==
    \/ Replay
    \/ SinkAccept
    \/ SinkFail(MaxFailures)

SpecRestart == InitRestart /\ [][NextRestart]_vars

\* The running pipeline over every clock reading, one category: raw and
\* aggregate batches reach the adapter, which accepts them or gives them up.
NextSink ==
    \/ Tick
    \/ EnqueueEvent(OneType, MaxEvents)
    \/ EwRecv \/ EwTimeout \/ EwPeriodicIdle
    \/ Replay
    \/ SinkAccept
    \/ SinkFail(MaxFailures)

SpecSink == Init /\ [][NextSink]_vars


\* ------------------------------------------------------------- store calls
\* The spill store's functions called with arbitrary arguments, and the
\* process killed and started again.
store_frame ==
    << clock, event_q, stop_evt, ds_counts, inflight, accepted, ew_pc,
       raw_lines_batch, last_ds_flush_s, ew_now, rw_pc, rw_seq, gpio_open,
       ev_log, ew_log, rw_log, n_failed, ew_to_flush, raised, n_buffered,
       diag_log, replayed_ids, ds_calls, ds_flushed >>

StorePayloads == { make_raw_lp("Import", Instants[1]), make_ds_lp("Export", 0, 2) }

LineLists == UNION { [1..k -> StorePayloads] : k \in 0..MaxLines }

IdLists == { SortedSeq(S) : S \in SUBSET (1..MaxIds) }

InitStore ==
    /\ InitProcess
    /\ LET db == ensure_db(NoDb)
       IN /\ lp_queue = db.q
          /\ db_seq = db.seq

StoreAppend ==
    /\ main_pc = "run"
    /\ \E bucket \in {RAW_BUCKET, DS_BUCKET}, lines \in LineLists :
          /\ db_seq + Len(lines) <= MaxIds
          /\ LET db == db_enqueue_lines(lp_queue, db_seq, bucket, lines)
             IN /\ lp_queue' = db.q
                /\ db_seq' = db.seq
    /\ UNCHANGED << rw_rows, main_pc, store_frame >>

StoreDequeue ==
    /\ main_pc = "run"
    /\ \E limit \in 1..MaxLimit : rw_rows' = db_dequeue_lines(lp_queue, limit)
    /\ UNCHANGED << lp_queue, db_seq, main_pc, store_frame >>

StoreDelete ==
    /\ main_pc = "run"
    /\ \E ids \in IdLists : lp_queue' = db_delete_ids(lp_queue, ids)
    /\ UNCHANGED << db_seq, rw_rows, main_pc, store_frame >>

\* The process is killed: what it held in memory is gone, committed rows stay.
StoreCrash ==
    /\ main_pc = "run"
    /\ main_pc' = "exited"
    /\ rw_rows' = << >>
    /\ UNCHANGED << lp_queue, db_seq, store_frame >>

\* Line 506: a new process runs ensure_db on the database it finds.
StoreEnsure ==
    /\ main_pc = "exited"
    /\ LET db == ensure_db([q |-> lp_queue, seq |-> db_seq])
       IN /\ lp_queue' = db.q
          /\ db_seq' = db.seq
    /\ main_pc' = "booted"
    /\ UNCHANGED << rw_rows, store_frame >>

\* Lines 512-515: the threads are started.
StoreRun ==
    /\ main_pc = "booted"
    /\ main_pc' = "run"
    /\ UNCHANGED << lp_queue, db_seq, rw_rows, store_frame >>

NextStore ==
    \/ StoreAppend
    \/ StoreDequeue
    \/ StoreDelete
    \/ StoreCrash
    \/ StoreEnsure
    \/ StoreRun

SpecStore == InitStore /\ [][NextStore]_vars

\* The replay worker over an existing store, with write_async able to raise.
NextFault ==
    \/ Replay
    \/ RwSubmitRaise
    \/ SinkAccept
    \/ SinkFail(MaxFailures)

SpecFault == InitRestart /\ [][NextFault]_vars

\* The accumulator under ds_lock: the flush taken loop by loop against
\* record_downsample calls from both threads.
NextLock ==
    \/ Tick
    \/ EnqueueLocked(OneType, LockEvents)
    \/ EwRecv
    \/ EwTimeout
    \/ EwFlushCopy
    \/ EwFlushPop
    \/ EwFlushEmit
    \/ EwNoFlush

SpecLock == Init /\ [][NextLock]_vars

\* Spill-store failures: appends by the overflow path and by error_cb may
\* raise; the worker runs and the adapter gives batches up.
NextDbError ==
    \/ EnqueueEvent(OneType, DbErrEvents)
    \/ EnqueueEventDbError(OneType, DbErrEvents, DbErrRaises)
    \/ EwRecv \/ EwTimeout \/ EwPeriodicIdle
    \/ SinkFail(DbErrFailures)
    \/ SinkFailDbError(DbErrFailures, DbErrRaises)

SpecDbError == Init /\ [][NextDbError]_vars

\* The running program under fair scheduling: time advances through every
\* clock reading and the thread of event_worker keeps being scheduled; no
\* shutdown is requested.
WorkerLoop == EwRecv \/ EwTimeout \/ EwPeriodicIdle

NextRun ==
    \/ Tick
    \/ EnqueueEvent(OneType, RunEvents)
    \/ WorkerLoop

SpecRun ==
    /\ Init
    /\ [][NextRun]_vars
    /\ WF_vars(Tick)
    /\ WF_vars(WorkerLoop)

\* The replay worker under fair scheduling, on the store an earlier run
\* left: the gateway overflows into the store (no worker empties the queue)
\* and the adapter gives up DrainFailures batches; from then on it accepts
\* every batch.
NextDrain ==
    \/ EnqueueEvent(OneType, DrainEvents)
    \/ Replay
    \/ SinkFail(DrainFailures)
    \/ (n_failed = DrainFailures /\ SinkAccept)

SpecDrain ==
    /\ InitDrain
    /\ [][NextDrain]_vars
    /\ WF_vars(Replay)

\* As SpecDrain, with main's diagnostic reads of the store between the
\* replay worker's steps.
NextDiag ==
    \/ NextDrain
    \/ MainDiag(DiagReads)

SpecDiag == InitDrain /\ [][NextDiag]_vars

\* The replay worker over two runs of the program: main shuts the first
\* run down and the program is started again on the same database.
NextRerun ==
    \/ Replay
    \/ Main
    \/ Restart(MaxRestarts)

SpecRerun == InitDrain /\ [][NextRerun]_vars

\* Shutdown under fair scheduling: the threads of event_worker and of
\* replay_worker keep being scheduled while main runs its finally block.
NextStop ==
    \/ EnqueueEvent(OneType, StopEvents)
    \/ Worker
    \/ Replay
    \/ Main

SpecStop ==
    /\ Init
    /\ [][NextStop]_vars
    /\ WF_vars(Worker)
    /\ WF_vars(Replay)

\* ======================================================================
\* Claims
\* ======================================================================
RawLineOf(ev) == make_raw_lp(ev[1], ev[2])

RECURSIVE SumOver(_, _)
\* Sum of f[i] over the indices i of the set I.
SumOver(f, I) ==
    IF I = {} THEN 0
    ELSE LET i == CHOOSE j \in I : TRUE IN f[i] + SumOver(f, I \ {i})

\* The worker's batch is open until the worker has exited.
OpenBatch == IF ew_pc = "done" THEN << >> ELSE raw_lines_batch

Submitted(l) == Cardinality({ i \in 1..Len(ev_log) : ev_log[i].line = l })

InQueue(l) == Cardinality({ i \in 1..Len(event_q) : RawLineOf(event_q[i]) = l })

InBatch(l) == Count(l, OpenBatch)

InFlight(l) ==
    SumOver([i \in 1..Len(inflight) |-> Count(l, inflight[i].lines)],
            1..Len(inflight))

InSpill(l) == Cardinality({ i \in 1..Len(lp_queue) : lp_queue[i].lp = l })

InSink(l) ==
    BagCount(accepted, [bucket |-> RAW_BUCKET, lp |-> l])
        + BagCount(accepted, [bucket |-> DS_BUCKET, lp |-> l])

SubmittedLines == { ev_log[i].line : i \in 1..Len(ev_log) }

\* C1: at-least-once delivery. In every reachable state every event passed
\* to enqueue_event is held, as often as it was passed, by the in-memory
\* queue, the worker's open batch, a batch in flight in the adapter, the
\* spill store or the records the sink accepted.
C1_AtLeastOnce ==
    \A l \in SubmittedLines :
        Submitted(l) <= InQueue(l) + InBatch(l) + InFlight(l) + InSpill(l) + InSink(l)

\* C1 witness: an event whose only copy is a spill row written by error_cb.
C1_Witness ==
    /\ n_failed > 0
    /\ \E l \in SubmittedLines :
          /\ InQueue(l) = 0 /\ InBatch(l) = 0 /\ InFlight(l) = 0 /\ InSink(l) = 0
          /\ InSpill(l) = Submitted(l)
          /\ \A i \in 1..Len(ev_log) : ev_log[i].line = l => ev_log[i].path = "queue"

\* Raw lines passed to write_async(RAW_BUCKET, ...) by either worker thread.
RawSent(l) ==
    LET log == ew_log \o rw_log IN
    SumOver([i \in 1..Len(log) |->
               IF log[i].bucket = RAW_BUCKET THEN Count(l, log[i].lines) ELSE 0],
            1..Len(log))

\* C2: with no queue overflow and no batch given up by the adapter, each
\* submitted event yields exactly one raw record in exactly one batch passed
\* to write_async(RAW_BUCKET, ...); stated for the end of the worker's run,
\* after which the worker submits nothing more.
C2_ExactlyOnce ==
    ( /\ ew_pc = "done"
      /\ n_failed = 0
      /\ \A i \in 1..Len(ev_log) : ev_log[i].path = "queue" )
    => \A l \in SubmittedLines : RawSent(l) = Submitted(l)

\* The accumulator's count for a window and a category (0 when absent).
AccCount(dc, w, p) ==
    IF w \notin DOMAIN dc THEN 0
    ELSE LET idx == { i \in 1..Len(dc[w]) : dc[w][i].pulse_type = p }
         IN IF idx = {} THEN 0 ELSE dc[w][CHOOSE i \in idx : TRUE].count

AllWindows ==
    { (Instants[i][1] \div DS_WINDOW_SECONDS) * DS_WINDOW_SECONDS :
        i \in 1..Len(Instants) }

\* C3: overflow path. When enqueue_event is called with the queue holding
\* exactly EVENT_Q_MAX events, the queue is left as it is, exactly one row
\* holding the event's raw line is appended to the spill store under
\* RAW_BUCKET, and the accumulator's bucket for the event's window and
\* category grows by exactly one (every other bucket is unchanged).
C3_OverflowPath ==
    [][ (Len(ev_log') = Len(ev_log) + 1 /\ Len(event_q) = EVENT_Q_MAX)
        => LET ev == ev_log'[Len(ev_log')]
               row == lp_queue'[Len(lp_queue')]
               win == (Instants[clock][1] \div DS_WINDOW_SECONDS) * DS_WINDOW_SECONDS
           IN /\ event_q' = event_q
              /\ Len(lp_queue') = Len(lp_queue) + 1
              /\ SubSeq(lp_queue', 1, Len(lp_queue)) = lp_queue
              /\ row.bucket = RAW_BUCKET
              /\ row.id > db_seq
              /\ row.lp = ev.line
              /\ row.lp.m = RAW_MEASUREMENT
              /\ row.lp.ts = Instants[clock]
              /\ row.lp.tag \in PulseTypes
              /\ \A w \in AllWindows, p \in PulseTypes :
                    AccCount(ds_counts', w, p)
                      = AccCount(ds_counts, w, p)
                          + (IF w = win /\ p = row.lp.tag THEN 1 ELSE 0)
      ]_vars

\* C3 witness: the last event found the queue full and is the last spill row.
C3_Witness ==
    /\ ev_log # << >>
    /\ ev_log[Len(ev_log)].path = "spill"
    /\ Len(event_q) = EVENT_Q_MAX
    /\ lp_queue # << >>
    /\ lp_queue[Len(lp_queue)].lp = ev_log[Len(ev_log)].line
    /\ lp_queue[Len(lp_queue)].bucket = RAW_BUCKET

\* The aggregate batches the worker submits in the current step.
NewDsBatches ==
    { i \in (Len(ew_log) + 1)..Len(ew_log') : ew_log'[i].bucket = DS_BUCKET }

\* The window keys the current step removes from the accumulator.
RemovedWindows == (DOMAIN ds_counts) \ (DOMAIN ds_counts')

\* The windows named by the lines of an aggregate batch.
WindowsOf(lines) == { lines[j].ts[1] : j \in 1..Len(lines) }

\* All aggregate lines the worker has submitted so far, batch after batch.
DsLinesSent ==
    Flatten([i \in 1..Len(ew_log) |->
               IF ew_log[i].bucket = DS_BUCKET THEN ew_log[i].lines ELSE << >>])

\* C4: each window's aggregate is emitted at most once: a window key that
\* a flush has removed from the accumulator is never in the accumulator
\* again, and no two aggregate lines submitted by the worker name the same
\* window and category.
C4_FlushedOnce ==
    /\ \A w \in ds_flushed : w \notin DOMAIN ds_counts
    /\ \A j, k \in 1..Len(DsLinesSent) :
          (DsLinesSent[j].ts = DsLinesSent[k].ts
             /\ DsLinesSent[j].tag = DsLinesSent[k].tag) => j = k

\* C5: aggregate counts. A step that removes no window submits no
\* aggregate batch; a step that removes windows submits exactly one batch,
\* to DS_BUCKET, which holds for each removed window that was never flushed
\* before exactly one line per category recorded for it, the line's count
\* being the number of record_downsample calls for that (window, category),
\* and no line for a category never recorded in that window.
C5_AggregateCounts ==
    [][ /\ RemovedWindows = {} => NewDsBatches = {}
        /\ RemovedWindows # {} =>
             /\ Cardinality(NewDsBatches) = 1
             /\ \A i \in NewDsBatches :
                  LET lines == ew_log'[i].lines IN
                  /\ \E k \in 1..Len(inflight') :
                        inflight'[k] = [bucket |-> DS_BUCKET, lines |-> lines]
                  /\ \A j \in 1..Len(lines) : lines[j].m = DS_MEASUREMENT
                  /\ \A w \in RemovedWindows \ ds_flushed, p \in PulseTypes :
                        LET n == BagCount(ds_calls, << w, p >>)
                            hits == { j \in 1..Len(lines) :
                                        lines[j].ts = << w, 0 >> /\ lines[j].tag = p }
                        IN /\ Cardinality(hits) = (IF n > 0 THEN 1 ELSE 0)
                           /\ \A j \in hits : lines[j].val = n
      ]_vars

\* C5 witness: a submitted aggregate batch with two categories, one of them
\* counted twice.
C5_Witness ==
    \E i \in 1..Len(ew_log) :
        /\ ew_log[i].bucket = DS_BUCKET
        /\ Len(ew_log[i].lines) >= 2
        /\ \E j \in 1..Len(ew_log[i].lines) :
              /\ ew_log[i].lines[j].val >= 2
              /\ ew_log[i].lines[j].val
                    = BagCount(ds_calls, << ew_log[i].lines[j].ts[1],
                                            ew_log[i].lines[j].tag >>)

\* The times at which the current step calls
\* flush_completed_downsample_windows: the periodic flush records its time
\* in last_ds_flush_s, the final flush reads the clock as the worker exits.
FlushTimes ==
    (IF last_ds_flush_s' # last_ds_flush_s THEN { last_ds_flush_s' } ELSE {})
      \cup (IF ew_pc = "drain" /\ ew_pc' = "done" THEN { Instants[clock][1] } ELSE {})

\* C6: a flush at time now removes and emits exactly the windows whose
\* start is below floor((now - grace) / window_size) * window_size and
\* leaves every other window and its counts unchanged; an emitted window
\* satisfies window_start + window_size <= now - grace.
C6_FlushExact ==
    [][ \A now \in FlushTimes :
          LET bound == ((now - DS_FLUSH_JITTER_SECONDS) \div DS_WINDOW_SECONDS)
                          * DS_WINDOW_SECONDS
              gone == { w \in DOMAIN ds_counts : w < bound }
          IN /\ DOMAIN ds_counts' = (DOMAIN ds_counts) \ gone
             /\ \A w \in DOMAIN ds_counts' : ds_counts'[w] = ds_counts[w]
             /\ gone = {} => NewDsBatches = {}
             /\ \A i \in NewDsBatches : WindowsOf(ew_log'[i].lines) = gone
             /\ gone # {} => NewDsBatches # {}
             /\ \A w \in gone :
                   w + DS_WINDOW_SECONDS <= now - DS_FLUSH_JITTER_SECONDS
      ]_vars

\* C6 witness: window=60, grace=2, one event in window 0 and one in window
\* 60; the flush at now=63 has emitted only window 0, with count 1, and has
\* kept window 60 with count 1.
C6_Witness ==
    /\ last_ds_flush_s = 63
    /\ DsLinesSent = << make_ds_lp("Import", 0, 1) >>
    /\ DOMAIN ds_counts = { 60 }
    /\ AccCount(ds_counts, 60, "Import") = 1
    /\ ds_flushed = { 0 }

\* C7: when the adapter gives up a batch submitted to a destination, the
\* error callback appends every line of that batch, in order, to the spill
\* store under that same destination.
C7_SpillSameBucket ==
    [][ n_failed' = n_failed + 1
        => \E i \in 1..Len(inflight) :
              LET lines == inflight[i].lines IN
              /\ inflight' = RemoveAt(inflight, i)
              /\ Len(lp_queue') = Len(lp_queue) + Len(lines)
              /\ SubSeq(lp_queue', 1, Len(lp_queue)) = lp_queue
              /\ \A k \in 1..Len(lines) :
                    /\ lp_queue'[Len(lp_queue) + k].lp = lines[k]
                    /\ lp_queue'[Len(lp_queue) + k].bucket = inflight[i].bucket
      ]_vars

\* The batches the replay worker submits in the current step.
NewReplayBatches == SubSeq(inflight', Len(inflight) + 1, Len(inflight'))

\* The lines of the rows stored under a destination, oldest first.
RowLines(rows, b) ==
    LET idx == { i \in 1..Len(rows) : rows[i].bucket = b }
        nth(k) == CHOOSE i \in idx : Cardinality({ j \in idx : j <= i }) = k
    IN [k \in 1..Cardinality(idx) |-> rows[nth(k)].lp]

\* C8: one replay cycle. The dequeue step takes the oldest rows of the store,
\* up to REPLAY_BATCH_LINES, and leaves the store alone; the submit step
\* makes exactly one write_async call per distinct destination of the
\* dequeued rows, each holding the lines of all rows stored under that
\* destination, the store still untouched; the delete step comes after the
\* submissions and removes exactly the dequeued ids, whatever has become of
\* the submitted batches.
C8_ReplayCycle ==
    [][ /\ (rw_pc = "sleep" /\ rw_pc' # "sleep") =>
             /\ rw_rows' = SubSeq(lp_queue, 1,
                                  IF Len(lp_queue) < REPLAY_BATCH_LINES
                                  THEN Len(lp_queue) ELSE REPLAY_BATCH_LINES)
             /\ \A i \in 1..Len(rw_rows'), j \in 1..Len(lp_queue) :
                   (j > Len(rw_rows')) => rw_rows'[i].id < lp_queue[j].id
             /\ lp_queue' = lp_queue
             /\ inflight' = inflight
        /\ (rw_pc = "submit" /\ rw_pc' = "delete") =>
             LET dests == { rw_rows[i].bucket : i \in 1..Len(rw_rows) }
                 new == NewReplayBatches
             IN /\ Len(new) = Cardinality(dests)
                /\ SubSeq(inflight', 1, Len(inflight)) = inflight
                /\ \A b \in dests :
                      \E k \in 1..Len(new) :
                         new[k] = [bucket |-> b, lines |-> RowLines(rw_rows, b)]
                /\ lp_queue' = lp_queue
        /\ (rw_pc = "delete" /\ rw_pc' = "loop") =>
             /\ \A i \in 1..Len(rw_rows) :
                   \E k \in 1..Len(rw_log) :
                      /\ rw_log[k].bucket = rw_rows[i].bucket
                      /\ Count(rw_rows[i].lp, rw_log[k].lines) > 0
             /\ lp_queue' = SelectSeq(lp_queue,
                               LAMBDA r : \A i \in 1..Len(rw_rows) : r.id # rw_rows[i].id)
             /\ inflight' = inflight
      ]_vars

\* C8 witness: a cycle over a store of more than REPLAY_BATCH_LINES rows of
\* two destinations has ended: two groups were submitted, one of them has
\* since been given up by the adapter, and the rows past the limit remain
\* together with the rows spilled again.
C8_Witness ==
    /\ rw_pc = "loop"
    /\ Len(rw_log) = 2
    /\ rw_log[1].bucket # rw_log[2].bucket
    /\ Len(rw_log[1].lines) + Len(rw_log[2].lines) = REPLAY_BATCH_LINES
    /\ n_failed > 0
    /\ Len(lp_queue) > 1
    /\ lp_queue[1].id = REPLAY_BATCH_LINES + 1

\* Number of lines the replay worker has submitted so far.
ReplayedCount ==
    SumOver([k \in 1..Len(rw_log) |-> Len(rw_log[k].lines)], 1..Len(rw_log))

\* The delete step that ends the first replay cycle after three batches
\* were given up by the adapter, with no append to the store since the
\* cycle's dequeue and no event spilled by queue overflow.
FirstCycleEnds ==
    /\ rw_pc = "delete"
    /\ rw_pc' = "loop"
    /\ n_failed >= 3
    /\ db_seq = rw_seq
    /\ ReplayedCount = Len(rw_rows)
    /\ \A i \in 1..Len(ev_log) : ev_log[i].path = "queue"

\* C9 as stated: after three batches of up to BATCH_THRESHOLD lines were
\* given up, a single replay cycle with no concurrent appends resubmits all
\* spilled entries and leaves the spill store empty.
C9_OneCycleEmpties ==
    [][ FirstCycleEnds =>
          /\ lp_queue' = << >>
          /\ ReplayedCount = Len(lp_queue)
      ]_vars

\* C9 amended: such a cycle resubmits the REPLAY_BATCH_LINES oldest spilled
\* entries (all of them when there are no more than that) and removes
\* exactly those; the store is empty afterwards if and only if the given-up
\* batches held no more than REPLAY_BATCH_LINES lines in total.
C9_OneCycleUpToLimit ==
    [][ FirstCycleEnds =>
          LET n == IF Len(lp_queue) < REPLAY_BATCH_LINES
                   THEN Len(lp_queue) ELSE REPLAY_BATCH_LINES
          IN /\ rw_rows = SubSeq(lp_queue, 1, n)
             /\ ReplayedCount = n
             /\ \A i \in 1..n :
                   \E k \in 1..Len(rw_log) :
                      /\ rw_log[k].bucket = lp_queue[i].bucket
                      /\ Count(lp_queue[i].lp, rw_log[k].lines) > 0
             /\ lp_queue' = SubSeq(lp_queue, n + 1, Len(lp_queue))
             /\ (lp_queue' = << >>) <=> (Len(lp_queue) <= REPLAY_BATCH_LINES)
      ]_vars

\* C9 witness: three batches of BATCH_THRESHOLD lines were given up; the
\* first cycle has resubmitted REPLAY_BATCH_LINES entries and one entry is
\* still in the store.
C9_Witness ==
    /\ n_failed = 3
    /\ rw_pc = "loop"
    /\ db_seq = 3 * BATCH_THRESHOLD
    /\ ReplayedCount = REPLAY_BATCH_LINES
    /\ Len(lp_queue) = 1
    /\ lp_queue[1].id = db_seq
    /\ \A i \in 1..Len(ev_log) : ev_log[i].path = "queue"

\* C10: shutdown drain. When the worker has exited the queue is empty and
\* every event that was put in the queue is in a batch the worker submitted.
C10_ShutdownDrain ==
    ew_pc = "done" =>
        /\ event_q = << >>
        /\ \A l \in SubmittedLines :
              Cardinality({ i \in 1..Len(ev_log) :
                              ev_log[i].line = l /\ ev_log[i].path = "queue" })
                 <= SumOver([k \in 1..Len(ew_log) |->
                               IF ew_log[k].bucket = RAW_BUCKET
                               THEN Count(l, ew_log[k].lines) ELSE 0],
                            1..Len(ew_log))

\* C11: shutdown final flush. The step in which the worker exits emits every
\* window that was pending in the accumulator, whatever its age, to
\* DS_BUCKET and leaves the accumulator empty.
C11_FinalFlushAll ==
    [][ (ew_pc = "drain" /\ ew_pc' = "done") =>
          /\ ds_counts' = EmptyFn
          /\ (DOMAIN ds_counts # {}) =>
                /\ NewDsBatches # {}
                /\ \A i \in NewDsBatches :
                      WindowsOf(ew_log'[i].lines) = DOMAIN ds_counts
      ]_vars

\* The write_async calls of the replay cycle in progress: the last calls of
\* the replay log, one per destination of the dequeued rows.
CycleBatches ==
    LET n == Cardinality({ rw_rows[i].bucket : i \in 1..Len(rw_rows) })
    IN IF Len(rw_log) < n THEN rw_log
       ELSE SubSeq(rw_log, Len(rw_log) - n + 1, Len(rw_log))

\* C12: a spill entry is deleted only after hand-off. Every row a step
\* removes from the store was returned by the cycle's dequeue and its
\* payload was passed to write_async, under the row's destination, before
\* the delete; and when a submit of the cycle has raised, every dequeued row
\* of that cycle is still in the store.
C12_DeleteAfterHandoff ==
    [][ /\ \A i \in 1..Len(lp_queue) :
              (\A j \in 1..Len(lp_queue') : lp_queue'[j].id # lp_queue[i].id)
              => /\ \E k \in 1..Len(rw_rows) : rw_rows[k] = lp_queue[i]
                 /\ Len(CycleBatches) = Cardinality({ rw_rows[k].bucket : k \in 1..Len(rw_rows) })
                 /\ \E k \in 1..Len(CycleBatches) :
                       /\ CycleBatches[k].bucket = lp_queue[i].bucket
                       /\ Count(lp_queue[i].lp, CycleBatches[k].lines) > 0
        /\ rw_pc' = "dead" =>
              \A k \in 1..Len(rw_rows') :
                 \E j \in 1..Len(lp_queue') : lp_queue'[j] = rw_rows'[k]
      ]_vars

\* C12 witness: a cycle over rows of two destinations has submitted the
\* first group, the second submit has raised, and all dequeued rows are
\* still stored.
C12_Witness ==
    /\ rw_pc = "dead"
    /\ Len(rw_log) = 1
    /\ Cardinality({ rw_rows[k].bucket : k \in 1..Len(rw_rows) }) = 2
    /\ \A k \in 1..Len(rw_rows) : lp_queue[k] = rw_rows[k]

\* C13: spill ids strictly increase and are never reused. Every row a step
\* adds to the store has an id above the AUTOINCREMENT sequence, hence above
\* every id still stored or held by a caller; the sequence never falls and
\* is never below a stored id, so it bounds every id ever assigned, deleted
\* ones included; stored ids are strictly ascending.
C13_IdsIncrease ==
    [][ /\ \A j \in 1..Len(lp_queue') :
              (\A i \in 1..Len(lp_queue) : lp_queue[i].id # lp_queue'[j].id)
              => /\ lp_queue'[j].id > db_seq
                 /\ \A i \in 1..Len(lp_queue) : lp_queue[i].id < lp_queue'[j].id
                 /\ \A k \in 1..Len(rw_rows) : rw_rows[k].id < lp_queue'[j].id
        /\ db_seq' >= db_seq
        /\ \A j \in 1..Len(lp_queue') : lp_queue'[j].id <= db_seq'
        /\ \A i, j \in 1..Len(lp_queue') :
              i < j => lp_queue'[i].id < lp_queue'[j].id
      ]_vars

\* C13 witness: a dequeued row has been deleted and the only row the store
\* holds carries the id after the deleted one.
C13_Witness ==
    /\ rw_rows # << >>
    /\ lp_queue # << >>
    /\ \A j \in 1..Len(lp_queue) : lp_queue[j].id # rw_rows[Len(rw_rows)].id
    /\ lp_queue[Len(lp_queue)].id = rw_rows[Len(rw_rows)].id + 1
    /\ Len(lp_queue) = 1

\* Id lists given to db_delete_ids: any order, repeats, absent ids.
AnyIdLists == UNION { [1..k -> 1..(MaxIds + 1)] : k \in 0..2 }

\* C14: db_delete_ids is idempotent. For every store and every id list,
\* deleting twice gives the store that deleting once gives; an empty list
\* or a list of absent ids changes nothing; the result holds exactly the
\* rows whose ids are not listed, in their order.
C14_DeleteIdempotent ==
    \A ids \in AnyIdLists \cup IdLists :
        LET once == db_delete_ids(lp_queue, ids)
            twice == db_delete_ids(once, ids)
            listed == { ids[k] : k \in 1..Len(ids) }
            keep == { i \in 1..Len(lp_queue) : lp_queue[i].id \notin listed }
        IN /\ twice = once
           /\ (\A i \in 1..Len(lp_queue) : lp_queue[i].id \notin listed)
                 => once = lp_queue
           /\ Len(once) = Cardinality(keep)
           /\ \A i \in keep :
                 once[Cardinality({ j \in keep : j <= i })] = lp_queue[i]

\* C14 witness: a store with a gap left by an earlier delete, so that lists
\* naming stored ids, deleted ids and never assigned ids are all tried.
C14_Witness ==
    /\ Len(lp_queue) >= 2
    /\ lp_queue[1].id > 1
    /\ lp_queue[2].id > lp_queue[1].id + 1
    /\ db_seq = MaxIds

\* C15: db_dequeue_lines(limit) returns min(limit, stored rows) rows, which
\* are stored rows as they were appended, in ascending id order, and every
\* stored row it leaves out has a larger id than every row it returns.
C15_DequeueOldest ==
    \A limit \in 0..(MaxIds + 1) :
        LET r == db_dequeue_lines(lp_queue, limit)
            n == IF limit < Len(lp_queue) THEN limit ELSE Len(lp_queue)
        IN /\ Len(r) = n
           /\ \A i \in 1..Len(r) : \E j \in 1..Len(lp_queue) : lp_queue[j] = r[i]
           /\ \A i, k \in 1..Len(r) : i < k => r[i].id < r[k].id
           /\ \A j \in 1..Len(lp_queue) :
                 (\A i \in 1..Len(r) : r[i] # lp_queue[j])
                 => \A i \in 1..Len(r) : r[i].id < lp_queue[j].id

\* C15 witness: a dequeue has returned fewer rows than are stored, starting
\* at the oldest row left after a delete.
C15_Witness ==
    /\ rw_rows # << >>
    /\ Len(rw_rows) < Len(lp_queue)
    /\ rw_rows = SubSeq(lp_queue, 1, Len(rw_rows))
    /\ rw_rows[1].id > 1

\* C16: spill round trip. For every store, destination and list of lines,
\* after db_enqueue_lines a dequeue of the whole store returns the earlier
\* rows followed by one row per appended line, in append order, each with
\* the identical payload and destination.
C16_RoundTrip ==
    \A bucket \in {RAW_BUCKET, DS_BUCKET}, lines \in LineLists :
        LET db == db_enqueue_lines(lp_queue, db_seq, bucket, lines)
            r == db_dequeue_lines(db.q, Len(db.q))
        IN /\ Len(r) = Len(lp_queue) + Len(lines)
           /\ \A i \in 1..Len(lp_queue) : r[i] = lp_queue[i]
           /\ \A i \in 1..Len(lines) :
                 /\ r[Len(lp_queue) + i].lp = lines[i]
                 /\ r[Len(lp_queue) + i].bucket = bucket

\* C16 witness: a dequeue has returned two rows of one append of two
\* different lines.
C16_Witness ==
    /\ Len(rw_rows) >= 2
    /\ rw_rows[1].id + 1 = rw_rows[2].id
    /\ rw_rows[1].bucket = rw_rows[2].bucket
    /\ rw_rows[1].lp # rw_rows[2].lp
    /\ SubSeq(lp_queue, 1, 2) = SubSeq(rw_rows, 1, 2)

\* C17: durability across restart. The rows and the id sequence are the
\* same after the process is killed, and the same again after the new
\* process has run ensure_db, when a dequeue returns every row appended
\* before the kill; ensure_db on an existing store changes nothing.
C17_SurvivesRestart ==
    [][ /\ (main_pc = "run" /\ main_pc' = "exited") =>
              (lp_queue' = lp_queue /\ db_seq' = db_seq)
        /\ (main_pc = "exited" /\ main_pc' = "booted") =>
              /\ lp_queue' = lp_queue
              /\ db_seq' = db_seq
              /\ db_dequeue_lines(lp_queue', Len(lp_queue)) = lp_queue
        /\ ensure_db([q |-> lp_queue, seq |-> db_seq]) = [q |-> lp_queue, seq |-> db_seq]
      ]_vars

\* C17 witness: a restarted process has run ensure_db on a store that holds
\* rows and has handed out more ids than it holds.
C17_Witness ==
    /\ main_pc = "booted"
    /\ lp_queue # << >>
    /\ Len(lp_queue) < db_seq

\* C18: fast path frame. A call of enqueue_event takes the overflow path
\* only when the queue holds EVENT_Q_MAX events; the queue never holds more
\* than EVENT_Q_MAX; and a call that enqueues appends the one (category,
\* timestamp) event at the tail of the queue and leaves the spill store, its
\* id sequence and the accumulator as they were.
C18_FastPathFrame ==
    [][ /\ Len(event_q') <= EVENT_Q_MAX
        /\ Len(ev_log') = Len(ev_log) + 1 =>
             LET ev == ev_log'[Len(ev_log')] IN
             /\ (ev.path = "spill") <=> (Len(event_q) = EVENT_Q_MAX)
             /\ (ev.path = "queue") =>
                   /\ event_q' = Append(event_q, << ev.line.tag, Instants[clock] >>)
                   /\ lp_queue' = lp_queue
                   /\ db_seq' = db_seq
                   /\ ds_counts' = ds_counts
                   /\ inflight' = inflight
                   /\ raw_lines_batch' = raw_lines_batch
      ]_vars

\* C18 witness: with a window already in the accumulator, the last event
\* was enqueued and took the last free slot of the queue.
C18_Witness ==
    /\ ev_log # << >>
    /\ ev_log[Len(ev_log)].path = "queue"
    /\ Len(event_q) = EVENT_Q_MAX
    /\ event_q[Len(event_q)] = << ev_log[Len(ev_log)].line.tag,
                                  ev_log[Len(ev_log)].line.ts >>
    /\ ds_counts # EmptyFn

\* Sum of the counts the worker has emitted for a window and a category.
EmittedCount(w, p) ==
    SumOver([j \in 1..Len(DsLinesSent) |->
               IF DsLinesSent[j].ts = << w, 0 >> /\ DsLinesSent[j].tag = p
               THEN DsLinesSent[j].val ELSE 0],
            1..Len(DsLinesSent))

\* The count the flush in progress has copied for a window and a category.
CopiedCount(snap, w, p) ==
    SumOver([k \in 1..Len(snap) |->
               IF snap[k][1] = w
               THEN AccCount((w :> snap[k][2]), w, p) ELSE 0],
            1..Len(snap))

\* Every increment is in exactly one place: the accumulator, an emitted
\* aggregate line, or the copies of a flush that has popped its windows and
\* not yet submitted them.
IncrementsKept ==
    \A w \in AllWindows, p \in PulseTypes :
        BagCount(ds_calls, << w, p >>)
          = AccCount(ds_counts, w, p) + EmittedCount(w, p)
              + (IF ew_pc \in {"emit_got", "emit_none"}
                 THEN CopiedCount(ew_to_flush, w, p) ELSE 0)

\* C19: accumulator atomicity. No step changes the accumulator between the
\* flush's copy of the completed windows and their removal, the removal
\* takes exactly the copied windows with the copied counts, and before and
\* after every step each increment is counted exactly once, in the
\* accumulator or in what the flush emits.
C19_AccumulatorAtomic ==
    [][ /\ ew_pc \in {"pop_got", "pop_none"} =>
              \/ /\ ew_pc' = ew_pc
                 /\ ds_counts' = ds_counts
              \/ /\ ew_pc' \in {"emit_got", "emit_none"}
                 /\ \A k \in 1..Len(ew_to_flush) :
                       /\ ew_to_flush[k][1] \in DOMAIN ds_counts
                       /\ ds_counts[ew_to_flush[k][1]] = ew_to_flush[k][2]
                       /\ ew_to_flush[k][1] \notin DOMAIN ds_counts'
                 /\ \A w \in DOMAIN ds_counts' : ds_counts'[w] = ds_counts[w]
        /\ IncrementsKept
        /\ IncrementsKept'
      ]_vars

\* C19 witness: the worker holds ds_lock with a completed window copied and
\* not yet popped, while the queue is full, so that the next enqueue_event
\* takes the overflow path and must wait in record_downsample.
C19_Witness ==
    /\ ew_pc \in {"pop_got", "pop_none"}
    /\ ew_to_flush # << >>
    /\ Len(event_q) = EVENT_Q_MAX
    /\ Len(ev_log) < LockEvents
    /\ gpio_open

\* The replay worker is between its dequeue and its delete, and the step is
\* not its own.
InsideCycle == rw_pc \in {"submit", "delete"} /\ rw_pc' = rw_pc

\* C20 as stated: the replay worker's dequeue-and-delete is one compound
\* operation with respect to append: no append takes effect between the
\* cycle's dequeue and its delete.
C20_CycleExcludesAppend ==
    [][ InsideCycle => (lp_queue' = lp_queue /\ db_seq' = db_seq) ]_vars

\* C20 amended: each store operation is taken whole, but dequeue and delete
\* are two operations. Between them other threads can only append: the
\* stored rows stay as they are, new rows follow them, and the dequeued
\* rows remain the oldest rows of the store. The delete then removes
\* exactly the dequeued rows and keeps every row appended since the dequeue.
C20_AppendsBetweenKept ==
    [][ /\ InsideCycle =>
              /\ Len(lp_queue') >= Len(lp_queue)
              /\ SubSeq(lp_queue', 1, Len(lp_queue)) = lp_queue
              /\ \A j \in (Len(lp_queue) + 1)..Len(lp_queue') :
                    lp_queue'[j].id > rw_seq
        /\ (rw_pc' \in {"submit", "delete"}) =>
              /\ Len(rw_rows') <= Len(lp_queue')
              /\ rw_rows' = SubSeq(lp_queue', 1, Len(rw_rows'))
        /\ (rw_pc = "delete" /\ rw_pc' = "loop") =>
              /\ lp_queue' = SubSeq(lp_queue, Len(rw_rows) + 1, Len(lp_queue))
              /\ \A i \in 1..Len(lp_queue) :
                    lp_queue[i].id > rw_seq
                    => \E j \in 1..Len(lp_queue') : lp_queue'[j] = lp_queue[i]
      ]_vars

\* C20 witness: the replay worker has submitted the dequeued rows and is
\* about to delete them, and the store holds a row appended since the
\* dequeue.
C20_Witness ==
    /\ rw_pc = "delete"
    /\ rw_rows # << >>
    /\ Len(lp_queue) > Len(rw_rows)
    /\ lp_queue[Len(lp_queue)].id > rw_seq


\* ---------------------------------------------------------------------- C21
\* C21: once the stop signal is set, under fair scheduling the ingestion
\* worker and the replay worker both eventually exit: event_worker has run
\* its drain and final flush and replay_worker has left its loop at the loop
\* test, not inside a cycle.
C21_WorkersExit ==
    stop_evt ~> (ew_pc = "done" /\ rw_pc = "done")


\* ---------------------------------------------------------------------- C22
\* Events passed to enqueue_event with raw line l that took the given path.
TookPath(l, path) ==
    Cardinality({ i \in 1..Len(ev_log) :
                    ev_log[i].line = l /\ ev_log[i].path = path })

\* Raw lines the ingestion worker passed to write_async(RAW_BUCKET, ...).
WorkerSent(l) ==
    SumOver([i \in 1..Len(ew_log) |->
               IF ew_log[i].bucket = RAW_BUCKET THEN Count(l, ew_log[i].lines) ELSE 0],
            1..Len(ew_log))

\* Events of a window and a category that have been consumed: passed to
\* enqueue_event and no longer waiting in the queue.
Consumed(w, p) ==
    Cardinality({ i \in 1..Len(ev_log) :
                    ev_log[i].line.tag = p /\ minute_epoch_of(ev_log[i].line.ts) = w })
      - Cardinality({ i \in 1..Len(event_q) :
                        event_q[i][1] = p /\ minute_epoch_of(event_q[i][2]) = w })

\* C22: each event is consumed exactly once, by the ingestion worker or by
\* the overflow path and never by both: every event that took the queue
\* path is waiting in the queue or has one raw record in the worker's open
\* batch or in one batch the worker submitted, and none in the spill store;
\* every event that took the overflow path has one raw record in the spill
\* store and none in a worker batch; and record_downsample has been called
\* once for every consumed event, which is counted once in the accumulator
\* or in an emitted aggregate.
C22_ConsumedOnce ==
    /\ \A l \in SubmittedLines :
          /\ TookPath(l, "queue") + TookPath(l, "spill") = Submitted(l)
          /\ TookPath(l, "queue") = InQueue(l) + InBatch(l) + WorkerSent(l)
          /\ TookPath(l, "spill") = InSpill(l)
    /\ \A i \in 1..Len(lp_queue) : lp_queue[i].lp \in SubmittedLines
    /\ \A w \in AllWindows, p \in PulseTypes :
          /\ BagCount(ds_calls, << w, p >>) = Consumed(w, p)
          /\ AccCount(ds_counts, w, p) + EmittedCount(w, p) = Consumed(w, p)

\* C22 witness: the worker has consumed and submitted a queued event, the
\* overflow path has consumed another, and no event is waiting.
C22_Witness ==
    /\ event_q = << >>
    /\ \E i, j \in 1..Len(ev_log) :
          /\ ev_log[i].path = "queue"
          /\ WorkerSent(ev_log[i].line) > 0
          /\ ev_log[j].path = "spill"
          /\ InSpill(ev_log[j].line) > 0


\* ---------------------------------------------------------------------- C23
\* The current step is an enqueue_event call, respectively an error_cb call.
EnqueueStep == Len(ev_log') = Len(ev_log) + 1

ErrorCbStep == n_failed' = n_failed + 1

RaisedStep == Len(raised') = Len(raised) + 1

\* C23: a failing append to the spill store is surfaced. An enqueue_event
\* call on a full queue whose append does not reach the store raises to its
\* caller and leaves the queue, the accumulator and the store unchanged; an
\* error_cb call whose append does not reach the store raises to its caller
\* and prints no "buffered" message; nothing else raises, and every
\* "buffered" message stands for rows appended to the store.
C23_DbErrorSurfaced ==
    [][ /\ (EnqueueStep /\ Len(event_q) = EVENT_Q_MAX /\ lp_queue' = lp_queue)
           => /\ RaisedStep
              /\ raised'[Len(raised')].from = "enqueue_event"
              /\ raised'[Len(raised')].lines = << ev_log'[Len(ev_log')].line >>
              /\ event_q' = event_q
              /\ ds_counts' = ds_counts
              /\ db_seq' = db_seq
        /\ (ErrorCbStep /\ lp_queue' = lp_queue)
           => /\ RaisedStep
              /\ raised'[Len(raised')].from = "error_cb"
              /\ raised'[Len(raised')].lines # << >>
              /\ n_buffered' = n_buffered
              /\ db_seq' = db_seq
        /\ RaisedStep => (lp_queue' = lp_queue /\ (EnqueueStep \/ ErrorCbStep))
        /\ n_buffered' # n_buffered
           => /\ n_buffered' = n_buffered + 1
              /\ ErrorCbStep
              /\ Len(lp_queue') > Len(lp_queue)
              /\ ~RaisedStep
      ]_vars

\* C23 witness: the append failed once on the overflow path, with events
\* counted in the accumulator, and once inside error_cb.
C23_Witness ==
    /\ Len(raised) = 2
    /\ raised[1].from = "enqueue_event"
    /\ raised[2].from = "error_cb"
    /\ Len(event_q) = EVENT_Q_MAX
    /\ ds_counts # EmptyFn


\* ---------------------------------------------------------------------- C24
\* The open batch is below the threshold and every raw batch the worker has
\* submitted holds between one and threshold records.
BatchBounded ==
    /\ Len(raw_lines_batch) < BATCH_THRESHOLD
    /\ \A i \in 1..Len(ew_log) :
          ew_log[i].bucket = RAW_BUCKET
            => (Len(ew_log[i].lines) >= 1 /\ Len(ew_log[i].lines) <= BATCH_THRESHOLD)

\* C24: batch threshold. A step in which the worker takes an event off the
\* queue, in the loop or in the drain, appends the event's raw record to the
\* open batch; if that brings the batch to BATCH_THRESHOLD records the step
\* submits exactly that batch to RAW_BUCKET and leaves the open batch
\* empty, otherwise it submits nothing. Before and after every step the
\* open batch is below the threshold and no submitted raw batch is empty or
\* above the threshold.
C24_BatchThreshold ==
    [][ /\ BatchBounded
        /\ BatchBounded'
        /\ Len(event_q') < Len(event_q)
           => LET batch == Append(raw_lines_batch, RawLineOf(Head(event_q)))
                  sent == [bucket |-> RAW_BUCKET, lines |-> batch]
              IN /\ ew_pc \in {"loop", "drain"}
                 /\ IF Len(batch) = BATCH_THRESHOLD
                    THEN /\ raw_lines_batch' = << >>
                         /\ ew_log' = Append(ew_log, sent)
                         /\ inflight' = Append(inflight, sent)
                    ELSE /\ raw_lines_batch' = batch
                         /\ ew_log' = ew_log
                         /\ inflight' = inflight
      ]_vars

\* C24 witness: the drain, entered before any loop iteration, has submitted
\* a batch of BATCH_THRESHOLD records and cleared the open batch.
C24_Witness ==
    /\ ew_pc = "drain"
    /\ last_ds_flush_s = 0
    /\ raw_lines_batch = << >>
    /\ \E i \in 1..Len(ew_log) :
          /\ ew_log[i].bucket = RAW_BUCKET
          /\ Len(ew_log[i].lines) = BATCH_THRESHOLD


\* ---------------------------------------------------------------------- C25
\* Events the ingestion worker has taken off the queue, and raw records it
\* has passed to write_async(RAW_BUCKET, ...).
DequeuedCount ==
    Cardinality({ i \in 1..Len(ev_log) : ev_log[i].path = "queue" }) - Len(event_q)

RawSentCount ==
    SumOver([i \in 1..Len(ew_log) |->
               IF ew_log[i].bucket = RAW_BUCKET THEN Len(ew_log[i].lines) ELSE 0],
            1..Len(ew_log))

\* C25: idle flush. An iteration whose dequeue timed out ends with the open
\* batch empty: if the batch held records, the iteration's last submission
\* is that whole batch, to RAW_BUCKET; if it held none, no raw batch is
\* submitted. Under fair scheduling of the running worker every event it
\* has dequeued is eventually in a raw batch it has submitted.
C25_IdleFlush ==
    /\ [][ (ew_pc = "flush_none" /\ ew_pc' = "loop")
           => /\ raw_lines_batch' = << >>
              /\ raw_lines_batch # << >>
                 => LET sent == [bucket |-> RAW_BUCKET, lines |-> raw_lines_batch]
                    IN /\ Len(ew_log') > Len(ew_log)
                       /\ ew_log'[Len(ew_log')] = sent
                       /\ inflight'[Len(inflight')] = sent
                       /\ RawSentCount' = RawSentCount + Len(raw_lines_batch)
              /\ raw_lines_batch = << >> => RawSentCount' = RawSentCount
         ]_vars
    /\ \A n \in 1..(RunEvents + 1) :
          (DequeuedCount >= n) ~> (RawSentCount >= n)

\* C25 witness: the worker has submitted a batch below the threshold, which
\* only the idle flush does while running, and holds no open batch.
C25_Witness ==
    /\ ew_pc = "loop"
    /\ raw_lines_batch = << >>
    /\ \E i \in 1..Len(ew_log) :
          /\ ew_log[i].bucket = RAW_BUCKET
          /\ Len(ew_log[i].lines) < BATCH_THRESHOLD


\* ---------------------------------------------------------------------- C26
\* Time will pass the end of window w plus the grace period.
WillComplete(w) ==
    \E k \in (clock + 1)..Len(Instants) : w < complete_before(Instants[k][1])

\* An aggregate line for window w has been submitted.
Emitted(w) ==
    \E j \in 1..Len(DsLinesSent) : DsLinesSent[j].ts = << w, 0 >>

\* C26: periodic window flush. Every iteration of the running worker,
\* whether it received an event or timed out, calls flush_completed with
\* the time it read exactly when at least DS_FLUSH_EVERY_SECONDS have
\* passed since its last flush: it then records that time as the last
\* flush, removes the windows complete at that time and submits their
\* lines to DS_BUCKET; otherwise it leaves the accumulator and the last
\* flush time alone and submits no aggregate. While the worker keeps
\* running and time advances past a window's end plus grace, a window
\* present in the accumulator is eventually removed and emitted.
C26_PeriodicFlush ==
    /\ [][ (ew_pc \in {"flush_got", "flush_none"} /\ ew_pc' = "loop")
           => IF ew_now - last_ds_flush_s >= DS_FLUSH_EVERY_SECONDS
              THEN /\ last_ds_flush_s' = ew_now
                   /\ DOMAIN ds_counts'
                        = { w \in DOMAIN ds_counts : w >= complete_before(ew_now) }
                   /\ \A w \in (DOMAIN ds_counts) \ (DOMAIN ds_counts') : Emitted(w)'
                   /\ RemovedWindows # {}
                      => \E i \in NewDsBatches : inflight'[Len(inflight')
                             - (IF ew_pc = "flush_none" /\ raw_lines_batch # << >>
                                THEN 1 ELSE 0)] = ew_log'[i]
              ELSE /\ last_ds_flush_s' = last_ds_flush_s
                   /\ ds_counts' = ds_counts
                   /\ NewDsBatches = {}
         ]_vars
    /\ \A w \in AllWindows :
          (w \in DOMAIN ds_counts /\ WillComplete(w))
             ~> (w \notin DOMAIN ds_counts /\ Emitted(w))

\* C26 witness: the worker has flushed again after its first iteration; the
\* aggregates of both complete windows are submitted and the accumulator
\* is empty.
C26_Witness ==
    /\ ew_pc = "loop"
    /\ last_ds_flush_s > Instants[1][1]
    /\ ds_counts = EmptyFn
    /\ event_q = << >>
    /\ Emitted(0)
    /\ Emitted(DS_WINDOW_SECONDS)


\* ---------------------------------------------------------------------- C27
\* The spill store holds a row with the given id.
InStore(id) == \E k \in 1..Len(lp_queue) : lp_queue[k].id = id

\* C27: the spill store drains. While the replay worker keeps running
\* under fair scheduling, the store, whoever appended its rows and
\* whenever, becomes empty once the appends have stopped and stays empty,
\* so every row is eventually deleted; and a row is deleted only after the
\* worker has submitted it and every row with a smaller id to the adapter.
C27_StoreDrains ==
    /\ [](\A id \in 1..db_seq : ~InStore(id) => ReplayedCount >= id)
    /\ <>[](lp_queue = << >>)

\* C27 witness: a backlog above the replay limit, an overflow append and an
\* error_cb append have all been replayed and deleted.
C27_Witness ==
    /\ lp_queue = << >>
    /\ rw_pc = "loop"
    /\ n_failed > 0
    /\ \E i \in 1..Len(ev_log) : ev_log[i].path = "spill"
    /\ db_seq > DrainRows + 1
    /\ ReplayedCount = db_seq


\* ---------------------------------------------------------------------- C28
\* The raw lines of the events that took the queue path, in enqueue order.
QueuedLines ==
    LET idx == SortedSeq({ i \in 1..Len(ev_log) : ev_log[i].path = "queue" })
    IN [k \in 1..Len(idx) |-> ev_log[idx[k]].line]

\* The raw lines the ingestion worker has submitted, batch after batch.
RawLinesSent ==
    Flatten([i \in 1..Len(ew_log) |->
               IF ew_log[i].bucket = RAW_BUCKET THEN ew_log[i].lines ELSE << >>])

\* C28: FIFO through the ingestion worker. The raw records of the submitted
\* raw batches, batch after batch, followed by the open batch and by the
\* events waiting in the queue, are the events that took the queue path in
\* the order they were enqueued: within a batch records are in enqueue
\* order and every record of an earlier batch was enqueued before every
\* record of a later one.
C28_WorkerFifo ==
    RawLinesSent \o OpenBatch \o [i \in 1..Len(event_q) |-> RawLineOf(event_q[i])]
        = QueuedLines

\* C28 witness: two raw batches are submitted, the first with two different
\* records, and the second holds a record different from the first's last.
C28_Witness ==
    \E i, j \in 1..Len(ew_log) :
        /\ i < j
        /\ ew_log[i].bucket = RAW_BUCKET
        /\ ew_log[j].bucket = RAW_BUCKET
        /\ Len(ew_log[i].lines) = 2
        /\ ew_log[i].lines[1] # ew_log[i].lines[2]
        /\ ew_log[j].lines[1] # ew_log[i].lines[2]


\* ---------------------------------------------------------------------- C29
\* C29: shutdown sequencing. When main has flushed and closed the adapter
\* and returned, the ingestion worker has exited: it has drained the queue,
\* submitted its open batch and run its final accumulator flush.
C29_CloseAfterWorker ==
    main_pc = "exited" => ew_pc = "done"


\* ---------------------------------------------------------------------- C30
\* The ids of the rows of a store, and the rows appended since the replay
\* worker's last dequeue.
StoredIds(q) == { q[i].id : i \in 1..Len(q) }

AppendedSince(q) == SelectSeq(q, LAMBDA r : r.id > rw_seq)

\* C30: the replay cycle's delete removes exactly the ids the cycle
\* dequeued. The submit step hands over as many lines as rows were
\* dequeued, none of a row appended since the dequeue, and leaves the store
\* alone; the delete step removes the rows with the dequeued ids and no
\* other row: the rows appended by the overflow path or by error_cb since
\* the dequeue all remain, in order, for a later cycle.
C30_DeleteExactlyDequeued ==
    [][ /\ (rw_pc = "submit" /\ rw_pc' = "delete")
           => /\ ReplayedCount' = ReplayedCount + Len(rw_rows)
              /\ \A k \in (Len(rw_log) + 1)..Len(rw_log') :
                    rw_log'[k].lines = RowLines(rw_rows, rw_log'[k].bucket)
              /\ \A i \in 1..Len(rw_rows) : rw_rows[i].id <= rw_seq
              /\ lp_queue' = lp_queue
        /\ (rw_pc = "delete" /\ rw_pc' = "loop")
           => /\ StoredIds(lp_queue) \ StoredIds(lp_queue')
                    = { rw_rows[i].id : i \in 1..Len(rw_rows) }
              /\ lp_queue' = SelectSeq(lp_queue,
                                 LAMBDA r : \A i \in 1..Len(rw_rows) : r.id # rw_rows[i].id)
              /\ AppendedSince(lp_queue') = AppendedSince(lp_queue)
              /\ db_seq' = db_seq
      ]_vars

\* C30 witness: a cycle has submitted rows and ended, and the store holds
\* only rows appended since that cycle's dequeue.
C30_Witness ==
    /\ rw_pc = "loop"
    /\ ReplayedCount > 0
    /\ lp_queue # << >>
    /\ lp_queue[1].id > rw_seq
    /\ lp_queue[Len(lp_queue)].id = db_seq


\* ---------------------------------------------------------------------- C31
\* The current step is a diagnostic read of main, respectively the replay
\* worker's dequeue.
DiagStep == Len(diag_log') = Len(diag_log) + 1

ReplayDequeueStep == rw_pc = "sleep" /\ rw_pc' # "sleep"

\* C31: db_dequeue_lines is a pure read. Main's diagnostic read of one row
\* reports whether the store holds a row and leaves the store, its id
\* sequence and the replay worker's rows as they are, so a dequeue with any
\* limit returns after it what it would have returned before it; the replay
\* worker's dequeue leaves the store as it is and a second dequeue with the
\* same limit would return the same entries.
C31_DequeuePureRead ==
    [][ /\ DiagStep
           => /\ lp_queue' = lp_queue
              /\ db_seq' = db_seq
              /\ rw_rows' = rw_rows
              /\ rw_pc' = rw_pc
              /\ diag_log'[Len(diag_log')] = (lp_queue # << >>)
              /\ \A limit \in 0..(REPLAY_BATCH_LINES + 1) :
                    db_dequeue_lines(lp_queue', limit) = db_dequeue_lines(lp_queue, limit)
        /\ ReplayDequeueStep
           => /\ lp_queue' = lp_queue
              /\ db_seq' = db_seq
              /\ rw_rows' = db_dequeue_lines(lp_queue, REPLAY_BATCH_LINES)
              /\ db_dequeue_lines(lp_queue', REPLAY_BATCH_LINES) = rw_rows'
      ]_vars

\* C31 witness: main's diagnostic read has found a row, and the replay
\* worker holds the oldest rows of a backlog above its limit, the store
\* still holding every row.
C31_Witness ==
    /\ diag_log # << >>
    /\ diag_log[Len(diag_log)]
    /\ rw_pc = "submit"
    /\ Len(rw_rows) = REPLAY_BATCH_LINES
    /\ rw_rows[1].id = 1
    /\ Len(lp_queue) = db_seq
    /\ db_seq > REPLAY_BATCH_LINES


\* ---------------------------------------------------------------------- C32
\* The ids the replay worker has submitted, over all runs of the program.
AllReplayedIds == Flatten(replayed_ids)

\* C32: without a crash, the replay worker hands each spill entry id to
\* the adapter at most once: no id is submitted by two replay cycles.
C32_IdSubmittedOnce ==
    \A j, k \in 1..Len(AllReplayedIds) :
        AllReplayedIds[j] = AllReplayedIds[k] => j = k

=============================================================================
